---- MODULE Spec2Model ----
(***************************************************************************)
(* Model of autoRecruitment.py: the distribution planner                   *)
(* (calculate_distribution, balance_distribution) and the resumable        *)
(* execution loop (execute_recruitment_loop).                              *)
(*                                                                         *)
(* A Python dict is modelled as a sequence of <<key, value>> pairs in      *)
(* insertion order, because the code iterates assignments in that order.   *)
(***************************************************************************)
EXTENDS Integers, Sequences, FiniteSets, TLC

\* ------------------------------------------------------------------------
\* Bounds of the model
\* ------------------------------------------------------------------------
NumBuildings == 2
SmallQty == 12
LargeQty == 25

\* ------------------------------------------------------------------------
\* Program constants
\* ------------------------------------------------------------------------
max_iterations == 100
tolerance == 1800
Hoplite == 303
Swordsman == 302
\* unit types in the order the operator is asked for them (UNITS_ORDER)
UNITS_ORDER == <<Hoplite, Swordsman>>

Units == {UNITS_ORDER[i] : i \in 1..Len(UNITS_ORDER)}
Dims == {"citizens", "wood", "wine", "marble", "crystal", "sulfur"}

\* ------------------------------------------------------------------------
\* Input domains
\* ------------------------------------------------------------------------
\* quantities the operator may enter for a unit type (0: skipped)
QtySet == {0, SmallQty, LargeQty}
LoopQtySet == {0, LargeQty}
\* the buildings lie in one city, or the first one in a city of its own
CityLayouts ==
    {[b \in 1..NumBuildings |-> "c1"],
     [b \in 1..NumBuildings |-> IF b = 1 THEN "c1" ELSE "c2"]}
\* snapshots a city may report: a little, enough for most of a plan
SnapshotSet ==
    {[citizens |-> 8, wood |-> 5, wine |-> 0, marble |-> 0, crystal |-> 0, sulfur |-> 3],
     [citizens |-> 60, wood |-> 40, wine |-> 0, marble |-> 0, crystal |-> 0, sulfur |-> 30]}
\* a snapshot that pays for any plan
RichSnapshot ==
    [citizens |-> 200, wood |-> 100, wine |-> 0, marble |-> 0, crystal |-> 0, sulfur |-> 100]

\* cost vector of a unit type (the same in every building)
Costs(u) ==
    IF u = Hoplite
    THEN [citizens |-> 1, wood |-> 1, wine |-> 0, marble |-> 0, crystal |-> 0, sulfur |-> 0]
    ELSE [citizens |-> 2, wood |-> 0, wine |-> 0, marble |-> 0, crystal |-> 0, sulfur |-> 1]

\* one entry of a building's capability map, as fetch_building_data builds it
UnitRecord(u, t) ==
    [time_seconds |-> t,
     citizens |-> Costs(u).citizens, wood |-> Costs(u).wood, wine |-> Costs(u).wine,
     marble |-> Costs(u).marble, crystal |-> Costs(u).crystal, sulfur |-> Costs(u).sulfur]

\* capability maps a building may report (an empty map: no slider was parsed)
UnitDataSet ==
    {<<>>,
     (Hoplite :> UnitRecord(Hoplite, 3000)),
     (Hoplite :> UnitRecord(Hoplite, 600)),
     (Hoplite :> UnitRecord(Hoplite, 4200)),
     (Hoplite :> UnitRecord(Hoplite, 0)) @@ (Swordsman :> UnitRecord(Swordsman, 3000)),
     (Hoplite :> UnitRecord(Hoplite, 3000)) @@ (Swordsman :> UnitRecord(Swordsman, 3000))}
\* the maps of the buildings after the second in the lists of the planner
ExtraUnitDataSet ==
    {<<>>,
     (Hoplite :> UnitRecord(Hoplite, 3000))}
\* the capability maps of the runs that are followed into the execution loop
LoopUnitDataSet ==
    {(Hoplite :> UnitRecord(Hoplite, 600)),
     (Hoplite :> UnitRecord(Hoplite, 3000)) @@ (Swordsman :> UnitRecord(Swordsman, 3000))}

VARIABLES
    unit_data,              \* building -> (unit type -> UnitRecord), the capability map
    city_id,                \* building -> city
    recruitment_order,      \* dict unit type -> requested quantity (> 0)
    assignments,            \* building -> dict unit type -> planned quantity
    estimated_time,         \* building -> stored completion-time estimate
    is_busy,                \* building -> busy flag of the record
    queue_remaining_time,   \* building -> queue time of the record
    action_code,            \* building -> TRUE when the record holds a token
    remaining_assignments,  \* building -> dict unit type -> quantity still to order
    city_resources,         \* city -> pool of the current cycle
    cycle_snapshot,         \* city -> what the pool held when the cycle fetched it
    buildings_to_recruit,   \* list of the orders prepared in the current cycle
    pc,                     \* position in the program
    iteration,              \* balance_distribution's iteration counter
    cursor,                 \* index of the item a for-loop is at
    runs,                   \* number of calculate_distribution calls started
    first_plan,             \* assignments returned by the first call
    live_busy,              \* game: building -> its queue is running
    submitted,              \* game: building -> unit type -> quantity received
    env_ok,                 \* game: TRUE once it stays rich and reachable
    notice,                 \* TRUE once the completion notice was sent
    speed_factors,          \* calculate_distribution's list of speeds (floats)
    total_speed,            \* calculate_distribution's sum of the speeds (float)
    distribution,           \* what calculate_distribution returned to its caller
    unplaced,               \* unit types calculate_distribution reported as unplaced
    resource_check,         \* what check_resources returned to autoRecruitment
    city_growth_rates,      \* city -> citizens per hour, as the town hall gave it
    time_estimates,         \* what estimate_recruitment_time returned
    success,                \* execute_recruitment's flag
    attempts,               \* what execute_recruitment did, building by building
    bg,                     \* position in the try statement of lines 670-683
    error_notice,           \* TRUE once the except clause called sendToBot
    logged_out,             \* TRUE once session.logout was called
    confirm,                \* the operator's answer to the last prompt
    growth_rate_fetches,    \* number of get_all_city_growth_rates calls so far
    can_recruit_building,   \* the loop's order for the building just evaluated
    wait_seconds,           \* length of the sleep the loop is in or has just ended
    city_requests,          \* cities asked for a snapshot in this audit or cycle, in order
    event_set               \* TRUE once event.set() was called

vars == <<unit_data, city_id, recruitment_order, assignments, estimated_time,
          is_busy, queue_remaining_time, action_code, remaining_assignments,
          city_resources, cycle_snapshot, buildings_to_recruit, pc, iteration, cursor, runs,
          first_plan, live_busy, submitted, env_ok, notice,
          speed_factors, total_speed, distribution, unplaced, resource_check,
          city_growth_rates, time_estimates, success, attempts, bg,
          error_notice, logged_out, confirm, growth_rate_fetches,
          can_recruit_building, wait_seconds, city_requests, event_set>>

\* len(buildings_data): the number of records the run works on
BuildingCount == Len(city_id)
Buildings == 1..BuildingCount

\* ------------------------------------------------------------------------
\* dict helpers
\* ------------------------------------------------------------------------
RECURSIVE SumSeq(_)
SumSeq(s) == IF s = <<>> THEN 0 ELSE Head(s) + SumSeq(Tail(s))

Keys(d) == [i \in 1..Len(d) |-> d[i][1]]
Values(d) == [i \in 1..Len(d) |-> d[i][2]]
KeySet(d) == {d[i][1] : i \in 1..Len(d)}
HasKey(d, k) == k \in KeySet(d)
IndexOf(d, k) == CHOOSE i \in 1..Len(d) : d[i][1] = k
\* d.get(k, 0)
Get(d, k) == IF HasKey(d, k) THEN d[IndexOf(d, k)][2] ELSE 0
\* d[k] = v
Put(d, k, v) ==
    IF HasKey(d, k) THEN [d EXCEPT ![IndexOf(d, k)] = <<k, v>>]
    ELSE Append(d, <<k, v>>)
\* del d[k]
Del(d, k) == SelectSeq(d, LAMBDA e : e[1] # k)

Max(a, b) == IF a >= b THEN a ELSE b
Min(a, b) == IF a <= b THEN a ELSE b

\* ------------------------------------------------------------------------
\* Python float arithmetic (IEEE-754 binary64, round to nearest even) on
\* positive values.  A natural number of any size is a sequence of limbs,
\* lowest first, without a leading zero limb; a float is a record
\* [m, e] of value m * 2^e whose m has exactly MantissaBits bits.
\* ------------------------------------------------------------------------
LimbBits == 15
LimbBase == 2^LimbBits
MantissaBits == 53

RECURSIVE Carry(_, _)
Carry(s, c) ==
    IF s = <<>>
    THEN IF c = 0 THEN <<>> ELSE <<c % LimbBase>> \o Carry(<<>>, c \div LimbBase)
    ELSE <<(Head(s) + c) % LimbBase>> \o Carry(Tail(s), (Head(s) + c) \div LimbBase)

RECURSIVE Strip(_)
Strip(s) ==
    IF s # <<>> /\ s[Len(s)] = 0 THEN Strip(SubSeq(s, 1, Len(s) - 1)) ELSE s

Limb(a, i) == IF i <= Len(a) THEN a[i] ELSE 0

BigOfInt(n) == Carry(<<>>, n)

RECURSIVE BigToInt(_)
BigToInt(a) == IF a = <<>> THEN 0 ELSE Head(a) + LimbBase * BigToInt(Tail(a))

BigAdd(a, b) == Carry([i \in 1..Max(Len(a), Len(b)) |-> Limb(a, i) + Limb(b, i)], 0)

\* a * k for 0 <= k < LimbBase
BigMulSmall(a, k) == Strip(Carry([i \in 1..Len(a) |-> a[i] * k], 0))

\* a - b - c for a >= b + c
RECURSIVE Borrow(_, _, _)
Borrow(a, b, c) ==
    IF a = <<>> THEN <<>>
    ELSE LET d == Head(a) - Limb(b, 1) - c
         IN  <<(d + LimbBase) % LimbBase>>
                 \o Borrow(Tail(a), IF b = <<>> THEN <<>> ELSE Tail(b),
                           IF d < 0 THEN 1 ELSE 0)

BigSub(a, b) == Strip(Borrow(a, b, 0))

RECURSIVE BigLess(_, _)
BigLess(a, b) ==
    IF Len(a) # Len(b) THEN Len(a) < Len(b)
    ELSE IF a = <<>> THEN FALSE
    ELSE IF a[Len(a)] # b[Len(b)] THEN a[Len(a)] < b[Len(b)]
    ELSE BigLess(SubSeq(a, 1, Len(a) - 1), SubSeq(b, 1, Len(b) - 1))

RECURSIVE IntBits(_)
IntBits(n) == IF n = 0 THEN 0 ELSE 1 + IntBits(n \div 2)

BigBits(a) == IF a = <<>> THEN 0 ELSE LimbBits * (Len(a) - 1) + IntBits(a[Len(a)])

\* quotient and remainder of a by d, 0 < d <= LimbBase
RECURSIVE QuotRem(_, _)
QuotRem(a, d) ==
    IF a = <<>> THEN [q |-> <<>>, r |-> 0]
    ELSE LET hi == QuotRem(Tail(a), d)
             cur == hi.r * LimbBase + Head(a)
         IN  [q |-> <<cur \div d>> \o hi.q, r |-> cur % d]

\* a * 2^n
BigShl(a, n) ==
    IF a = <<>> THEN <<>>
    ELSE [i \in 1..(n \div LimbBits) |-> 0] \o BigMulSmall(a, 2^(n % LimbBits))

\* floor(a / 2^n)
BigShr(a, n) ==
    IF n \div LimbBits >= Len(a) THEN <<>>
    ELSE Strip(QuotRem(SubSeq(a, (n \div LimbBits) + 1, Len(a)), 2^(n % LimbBits)).q)

Odd(a) == a # <<>> /\ a[1] % 2 = 1

\* the float nearest to big * 2^e (plus a positive amount below one unit of
\* big when sticky), ties to the even mantissa
Round(big, e, sticky) ==
    LET len == BigBits(big)
    IN  IF len <= MantissaBits
        THEN [m |-> BigShl(big, MantissaBits - len), e |-> e - (MantissaBits - len)]
        ELSE LET d == len - MantissaBits
                 kept == BigShr(big, d)
                 with_half == BigShr(big, d - 1)
                 rest == sticky \/ BigShl(with_half, d - 1) # big
                 up == Odd(with_half) /\ (rest \/ Odd(kept))
                 m1 == IF up THEN BigAdd(kept, <<1>>) ELSE kept
             IN  IF BigBits(m1) > MantissaBits
                 THEN [m |-> BigShr(m1, 1), e |-> e + d + 1]
                 ELSE [m |-> m1, e |-> e + d]

\* float(n) for an int n > 0
FloatOfInt(n) == Round(BigOfInt(n), 0, FALSE)

\* x + y
FloatAdd(x, y) ==
    LET e == Min(x.e, y.e)
    IN  Round(BigAdd(BigShl(x.m, x.e - e), BigShl(y.m, y.e - e)), e, FALSE)

\* the largest k in lo..hi with den * k <= rem
RECURSIVE DigitSearch(_, _, _, _)
DigitSearch(rem, den, lo, hi) ==
    IF lo = hi THEN lo
    ELSE LET mid == (lo + hi + 1) \div 2
         IN  IF BigLess(rem, BigMulSmall(den, mid))
             THEN DigitSearch(rem, den, lo, mid - 1)
             ELSE DigitSearch(rem, den, mid, hi)

\* floor(rem * LimbBase^n / den) and what is left, for rem < den * LimbBase
RECURSIVE LongDiv(_, _, _)
LongDiv(rem, den, n) ==
    LET k == DigitSearch(rem, den, 0, LimbBase - 1)
        r1 == BigSub(rem, BigMulSmall(den, k))
        low == LongDiv(IF r1 = <<>> THEN <<>> ELSE <<0>> \o r1, den, n - 1)
    IN  IF n = 0 THEN [q |-> <<k>>, r |-> r1]
        ELSE [q |-> low.q \o <<k>>, r |-> low.r]

\* x / y
FloatDiv(x, y) ==
    LET d == LongDiv(x.m, y.m, 4)
    IN  Round(Strip(d.q), x.e - y.e - 4 * LimbBits, d.r # <<>>)

\* n * x for an int 0 < n < LimbBase
FloatMulInt(n, x) == Round(BigMulSmall(x.m, n), x.e, FALSE)

\* a * b
RECURSIVE BigMul(_, _)
BigMul(a, b) ==
    IF b = <<>> THEN <<>>
    ELSE LET high == BigMul(a, Tail(b))
         IN  BigAdd(BigMulSmall(a, Head(b)), IF high = <<>> THEN <<>> ELSE <<0>> \o high)

\* x * y
FloatMul(x, y) == Round(BigMul(x.m, y.m), x.e + y.e, FALSE)

\* x < y
FloatLess(x, y) ==
    LET e == Min(x.e, y.e)
    IN  BigLess(BigShl(x.m, x.e - e), BigShl(y.m, y.e - e))

\* int(x)
FloatTrunc(x) ==
    IF x.e >= 0 THEN BigToInt(BigShl(x.m, x.e)) ELSE BigToInt(BigShr(x.m, -x.e))

\* ------------------------------------------------------------------------
\* calculate_distribution: the proportional split of one unit type
\* ------------------------------------------------------------------------
BuildingList == [b \in 1..BuildingCount |-> b]

\* buildings whose capability map holds unit_idx, in list order
capable_buildings(unit_idx) ==
    SelectSeq(BuildingList, LAMBDA b : unit_idx \in DOMAIN unit_data[b])

time_per_unit(b, unit_idx) == unit_data[b][unit_idx].time_seconds

\* lines 884-887: 1.0 / time_per_unit, or 1.0
speed(t) ==
    IF t > 0 THEN FloatDiv(FloatOfInt(1), FloatOfInt(t)) ELSE FloatOfInt(1)

\* total_speed = 0
FloatZero == [m |-> <<>>, e |-> 0]

\* lines 881-889: total_speed after the speeds s were added to it in turn
RECURSIVE AddSpeeds(_, _)
AddSpeeds(total, s) ==
    IF s = <<>> THEN total ELSE AddSpeeds(FloatAdd(total, Head(s)), Tail(s))

\* int(total_qty * (speed_factors[i] / total_speed))
ProportionalQty(total_qty, i) ==
    FloatTrunc(FloatMulInt(total_qty, FloatDiv(speed_factors[i], total_speed)))

\* variant: the last capable building is given its proportional share too
SplitQty_NoRemainder(cap, total_qty, i) ==
    IF total_speed = FloatZero
    THEN (total_qty \div Len(cap)) + (IF i - 1 < total_qty % Len(cap) THEN 1 ELSE 0)
    ELSE ProportionalQty(total_qty, i)

\* lines 891-905: quantity computed for the i-th capable building
SplitQty(cap, total_qty, i) ==
    IF total_speed = FloatZero
    THEN (total_qty \div Len(cap)) + (IF i - 1 < total_qty % Len(cap) THEN 1 ELSE 0)
    ELSE IF i = Len(cap)
         THEN total_qty - SumSeq([j \in 1..(Len(cap) - 1) |-> ProportionalQty(total_qty, j)])
         ELSE ProportionalQty(total_qty, i)

PositionIn(cap, b) == CHOOSE i \in 1..Len(cap) : cap[i] = b

\* building['assignments'][unit_idx] = qty
SetAssignment(d, unit_idx, qty) == Put(d, unit_idx, qty)

\* the assignments of all buildings after the loop body for one unit type
SplitUnit(asg, unit_idx, total_qty) ==
    LET cap == capable_buildings(unit_idx)
    IN  [b \in Buildings |->
            IF unit_idx \in DOMAIN unit_data[b]
            THEN LET qty == SplitQty(cap, total_qty, PositionIn(cap, b))
                 IN  IF qty > 0 THEN SetAssignment(asg[b], unit_idx, qty) ELSE asg[b]
            ELSE asg[b]]

\* ------------------------------------------------------------------------
\* the completion-time estimate of one building
\* ------------------------------------------------------------------------
\* game: the time the barracks view shows for the queue of building b, two
\* hours while a queue runs; fetch_building_data does not read it
live_queue_time(b) == IF live_busy[b] THEN 7200 ELSE 0

EstimatedTime(b, d) ==
    SumSeq([i \in 1..Len(d) |->
              IF d[i][1] \in DOMAIN unit_data[b]
              THEN time_per_unit(b, d[i][1]) * d[i][2] ELSE 0])
    + (IF is_busy[b] THEN queue_remaining_time[b] ELSE 0)
    + (IF d # <<>> THEN 10 * Len(d) ELSE 0)

times(asg) == [b \in 1..BuildingCount |-> EstimatedTime(b, asg[b])]

RECURSIVE MaxSeq(_)
MaxSeq(s) == IF Len(s) = 1 THEN s[1] ELSE Max(Head(s), MaxSeq(Tail(s)))
RECURSIVE MinSeq(_)
MinSeq(s) == IF Len(s) = 1 THEN s[1] ELSE Min(Head(s), MinSeq(Tail(s)))
\* variant: the last position holding v
FirstIndex_Last(s, v) == CHOOSE i \in 1..Len(s) : s[i] = v /\ \A j \in (i + 1)..Len(s) : s[j] # v

\* list.index(v): the first position holding v
FirstIndex(s, v) == CHOOSE i \in 1..Len(s) : s[i] = v /\ \A j \in 1..(i - 1) : s[j] # v

max_time(asg) == MaxSeq(times(asg))
min_time(asg) == MinSeq(times(asg))
fastest_idx(asg) == FirstIndex(times(asg), min_time(asg))
slowest_idx(asg) == FirstIndex(times(asg), max_time(asg))

\* ------------------------------------------------------------------------
\* balance_distribution: one move from the slowest to the fastest building
\* ------------------------------------------------------------------------
\* the test that lets a unit type of the slowest building be moved
Movable(current_qty) == ~(current_qty <= 10)

\* variant: the capability map of the fastest building is not consulted
MovablePositions_AnyUnit(asg) ==
    LET slowest == asg[slowest_idx(asg)]
    IN  {k \in 1..Len(slowest) : Movable(slowest[k][2])}

\* positions of the slowest building's assignments the for-loop does not skip
MovablePositions(asg) ==
    LET slowest == asg[slowest_idx(asg)]
    IN  {k \in 1..Len(slowest) :
            /\ slowest[k][1] \in DOMAIN unit_data[fastest_idx(asg)]
            /\ Movable(slowest[k][2])}

moved(asg) == MovablePositions(asg) # {}

\* variant: the whole quantity is moved
move_qty_All(current_qty) == current_qty

\* line 976: the quantity one move takes from the slowest building
move_qty(current_qty) == Min(10, current_qty - 1)

\* the assignments after the move of the first movable unit type
MoveUnits(asg) ==
    LET s == slowest_idx(asg)
        f == fastest_idx(asg)
        k == CHOOSE p \in MovablePositions(asg) : \A q \in MovablePositions(asg) : p <= q
        unit_idx == asg[s][k][1]
        current_qty == asg[s][k][2]
        left == current_qty - move_qty(current_qty)
        slow1 == IF left <= 0 THEN Del(asg[s], unit_idx) ELSE Put(asg[s], unit_idx, left)
        a1 == [asg EXCEPT ![s] = slow1]
        fast0 == IF HasKey(a1[f], unit_idx) THEN a1[f] ELSE Put(a1[f], unit_idx, 0)
    IN  [a1 EXCEPT ![f] = Put(fast0, unit_idx, Get(fast0, unit_idx) + move_qty(current_qty))]

\* ------------------------------------------------------------------------
\* Initial state: the records autoRecruitment hands to calculate_distribution
\* ------------------------------------------------------------------------
\* the order dict: unit types in UNITS_ORDER order, positive quantities only
OrderOf(q) ==
    SelectSeq([i \in 1..Len(UNITS_ORDER) |-> <<UNITS_ORDER[i], q[UNITS_ORDER[i]]>>],
              LAMBDA e : e[2] > 0)

\* buildings_data lists the idle buildings first, then the busy ones
BusyLayouts ==
    {f \in [1..NumBuildings -> BOOLEAN] :
        \A i, j \in 1..NumBuildings : (i < j /\ f[i]) => f[j]}

NoUnits == [u \in Units |-> 0]

\* the caller's variable before check_resources returned
NoAudit == [available |-> <<>>, missing_citizens |-> <<>>, missing_resources |-> <<>>]

\* the caller's variable before estimate_recruitment_time returned
NoEstimate == [by_city |-> <<>>, total_time_seconds |-> <<>>, bottleneck |-> <<>>]

\* the value of the caller's variable before calculate_distribution returned,
\* the value None, and a list of building records
NoResult == [returned |-> FALSE, is_none |-> FALSE, buildings |-> <<>>]
NoneResult == [returned |-> TRUE, is_none |-> TRUE, buildings |-> <<>>]
ListResult(l) == [returned |-> TRUE, is_none |-> FALSE, buildings |-> l]
\* not d
Falsy(d) == d.is_none \/ d.buildings = <<>>

\* the caller's variable before the operator was asked to confirm
NoAnswer == "unasked"

\* the records of a run whose city layout, capability maps, quantities,
\* token layout and busy flags are drawn from the given sets
InitFrom(unit_layouts, orders, city_layouts, token_layouts, busy_layouts) ==
    /\ city_id \in city_layouts
    /\ unit_data \in unit_layouts
    /\ \E q \in orders : recruitment_order = OrderOf(q)
    /\ is_busy \in busy_layouts
    /\ live_busy = is_busy
    /\ queue_remaining_time = [b \in Buildings |-> 0]
    /\ action_code \in token_layouts
    /\ assignments = [b \in Buildings |-> <<>>]
    /\ estimated_time = [b \in Buildings |-> 0]
    /\ remaining_assignments = [b \in Buildings |-> <<>>]
    /\ city_resources = <<>>
    /\ cycle_snapshot = <<>>
    /\ buildings_to_recruit = <<>>
    /\ pc = "start"
    /\ iteration = 0
    /\ cursor = 0
    /\ runs = 1
    /\ first_plan = <<>>
    /\ submitted = [b \in Buildings |-> NoUnits]
    /\ env_ok = FALSE
    /\ notice = FALSE
    /\ speed_factors = <<>>
    /\ total_speed = FloatZero
    /\ distribution = NoResult
    /\ unplaced = {}
    /\ resource_check = NoAudit
    /\ city_growth_rates = <<>>
    /\ growth_rate_fetches = 0
    /\ can_recruit_building = <<>>
    /\ wait_seconds = 0
    /\ city_requests = <<>>
    /\ event_set = FALSE
    /\ time_estimates = NoEstimate
    /\ success = TRUE
    /\ attempts = <<>>
    /\ bg = "before"
    /\ error_notice = FALSE
    /\ logged_out = FALSE
    /\ confirm = NoAnswer

TokenLayouts == {[b \in Buildings |-> TRUE], [b \in Buildings |-> FALSE]}

\* the whole program: autoRecruitment offers the operator the unit types
\* that some building can build (lines 437-445) and stops when none was
\* ordered (lines 498-504)
Init ==
    /\ InitFrom([1..NumBuildings -> LoopUnitDataSet], [Units -> LoopQtySet] \ {NoUnits},
                CityLayouts, TokenLayouts, BusyLayouts)
    /\ \A k \in 1..Len(recruitment_order) :
          \E b \in Buildings : recruitment_order[k][1] \in DOMAIN unit_data[b]

\* the capability maps of the lists the planner alone is followed on: any
\* map of UnitDataSet for the first two buildings, and for the others no map
\* or the Hoplite alone
PlanUnitLayouts ==
    {f \in [1..(NumBuildings + 1) -> UnitDataSet] :
        \A b \in 3..(NumBuildings + 1) : f[b] \in ExtraUnitDataSet}

\* the planner alone, on a list that is one building longer, on a wider set
\* of records of idle buildings and on every order, the empty one included
PlanInit ==
    InitFrom(PlanUnitLayouts, [Units -> QtySet],
             {[b \in 1..(NumBuildings + 1) |-> "c1"]},
             {[b \in Buildings |-> TRUE]}, {[b \in Buildings |-> FALSE]})

input_vars == <<unit_data, city_id, recruitment_order>>
audit_vars == <<resource_check, city_growth_rates, time_estimates, growth_rate_fetches>>
immediate_vars == <<success, attempts>>
background_vars == <<bg, error_notice, logged_out>>
prompt_vars == <<confirm, event_set>>
caller_vars == <<audit_vars, immediate_vars, background_vars, prompt_vars>>
plan_vars == <<assignments, estimated_time, iteration, runs, first_plan,
               speed_factors, total_speed, distribution, unplaced>>
split_vars == <<speed_factors, total_speed>>
sleep_vars == <<can_recruit_building, wait_seconds>>
cycle_vars == <<action_code, remaining_assignments, city_resources, cycle_snapshot,
                buildings_to_recruit, live_busy, submitted, env_ok, notice, sleep_vars>>
loop_vars == <<cycle_vars, city_requests>>

\* ------------------------------------------------------------------------
\* calculate_distribution, step by step
\* ------------------------------------------------------------------------
\* variant: the plans of an earlier call are kept
ResetAssignments_Keep(asg) == asg

\* lines 865-867: every record gets an empty plan
ResetAssignments(asg) == [b \in Buildings |-> <<>>]

\* lines 862-863: nothing to plan with, None is returned
ReturnNone ==
    /\ pc = "start"
    /\ (BuildingList = <<>> \/ recruitment_order = <<>>)
    /\ distribution' = NoneResult
    /\ pc' = "planned"
    /\ UNCHANGED <<input_vars, caller_vars, loop_vars, unplaced, split_vars, assignments, estimated_time,
                   is_busy, queue_remaining_time, iteration, cursor, runs, first_plan>>

EnterCalculateDistribution ==
    /\ pc = "start"
    /\ ~(BuildingList = <<>> \/ recruitment_order = <<>>)
    /\ assignments' = ResetAssignments(assignments)
    /\ estimated_time' = [b \in Buildings |-> 0]
    /\ cursor' = 1
    /\ pc' = "split"
    /\ UNCHANGED <<input_vars, caller_vars, loop_vars, unplaced, distribution, split_vars, is_busy, queue_remaining_time,
                   iteration, runs, first_plan>>

\* lines 869-878: no building can build the next unit type of the order;
\* the loop goes on to the next one and nothing is recorded or printed
SkipUnit ==
    /\ pc = "split"
    /\ cursor <= Len(recruitment_order)
    /\ capable_buildings(recruitment_order[cursor][1]) = <<>>
    /\ cursor' = cursor + 1
    /\ UNCHANGED <<input_vars, caller_vars, loop_vars, unplaced, distribution, split_vars, assignments, estimated_time,
                   is_busy, queue_remaining_time, pc, iteration, runs, first_plan>>

\* lines 869-889: the speeds of the buildings capable of the next unit type
ComputeSpeeds ==
    /\ pc = "split"
    /\ cursor <= Len(recruitment_order)
    /\ LET unit_idx == recruitment_order[cursor][1]
           cap == capable_buildings(unit_idx)
       IN  /\ cap # <<>>
           /\ speed_factors' = [i \in 1..Len(cap) |-> speed(time_per_unit(cap[i], unit_idx))]
           /\ total_speed' = AddSpeeds(FloatZero, speed_factors')
    /\ pc' = "assign"
    /\ UNCHANGED <<input_vars, caller_vars, loop_vars, unplaced, distribution, assignments, estimated_time, is_busy,
                   queue_remaining_time, cursor, iteration, runs, first_plan>>

\* lines 891-908: the quantities of that unit type are assigned
SplitNextUnit ==
    /\ pc = "assign"
    /\ assignments' = SplitUnit(assignments, recruitment_order[cursor][1],
                                recruitment_order[cursor][2])
    /\ cursor' = cursor + 1
    /\ pc' = "split"
    /\ UNCHANGED <<input_vars, caller_vars, loop_vars, unplaced, distribution, split_vars, estimated_time, is_busy,
                   queue_remaining_time, iteration, runs, first_plan>>

\* lines 910-925: the estimates are stored and balance_distribution is
\* entered; the locals of the split are not read again
StoreEstimates ==
    /\ pc = "split"
    /\ cursor > Len(recruitment_order)
    /\ estimated_time' = times(assignments)
    /\ iteration' = 0
    /\ speed_factors' = <<>>
    /\ total_speed' = FloatZero
    /\ pc' = "balance"
    /\ UNCHANGED <<input_vars, caller_vars, loop_vars, unplaced, distribution, assignments, is_busy,
                   queue_remaining_time, cursor, runs, first_plan>>

\* line 935: the while condition fails
BalanceExhausted ==
    /\ pc = "balance"
    /\ ~(iteration < max_iterations)
    /\ pc' = "planned"
    /\ distribution' = ListResult(BuildingList)
    /\ UNCHANGED <<input_vars, caller_vars, loop_vars, unplaced, split_vars, assignments, estimated_time, is_busy,
                   queue_remaining_time, iteration, cursor, runs, first_plan>>

\* lines 936-959: the skew is within the tolerance
BalanceWithinTolerance ==
    /\ pc = "balance"
    /\ iteration < max_iterations
    /\ iteration' = iteration + 1
    /\ estimated_time' = times(assignments)
    /\ max_time(assignments) - min_time(assignments) <= tolerance
    /\ pc' = "planned"
    /\ distribution' = ListResult(BuildingList)
    /\ UNCHANGED <<input_vars, caller_vars, loop_vars, unplaced, split_vars, assignments, is_busy,
                   queue_remaining_time, cursor, runs, first_plan>>

\* lines 936-990: no unit type of the slowest building can be moved
BalanceNoMove ==
    /\ pc = "balance"
    /\ iteration < max_iterations
    /\ iteration' = iteration + 1
    /\ estimated_time' = times(assignments)
    /\ ~(max_time(assignments) - min_time(assignments) <= tolerance)
    /\ ~moved(assignments)
    /\ pc' = "planned"
    /\ distribution' = ListResult(BuildingList)
    /\ UNCHANGED <<input_vars, caller_vars, loop_vars, unplaced, split_vars, assignments, is_busy,
                   queue_remaining_time, cursor, runs, first_plan>>

\* lines 936-987: one move from the slowest to the fastest building
BalanceMove ==
    /\ pc = "balance"
    /\ iteration < max_iterations
    /\ iteration' = iteration + 1
    /\ estimated_time' = times(assignments)
    /\ ~(max_time(assignments) - min_time(assignments) <= tolerance)
    /\ moved(assignments)
    /\ assignments' = MoveUnits(assignments)
    /\ UNCHANGED <<input_vars, caller_vars, loop_vars, unplaced, distribution, split_vars, is_busy, queue_remaining_time,
                   pc, cursor, runs, first_plan>>

\* calculate_distribution is called again on the records it returned
Replan ==
    /\ pc = "planned"
    /\ runs = 1
    /\ first_plan' = assignments
    /\ runs' = 2
    /\ pc' = "start"
    /\ UNCHANGED <<input_vars, caller_vars, loop_vars, unplaced, distribution, split_vars, assignments, estimated_time, is_busy,
                   queue_remaining_time, iteration, cursor>>

\* lines 516-521: the caller stops on a result that is not true
CouldNotCalculate ==
    /\ pc = "planned"
    /\ Falsy(distribution)
    /\ event_set' = TRUE
    /\ pc' = "stopped"
    /\ UNCHANGED <<input_vars, audit_vars, immediate_vars, background_vars, confirm,
                   loop_vars, unplaced, distribution, split_vars, assignments,
                   estimated_time, is_busy, queue_remaining_time, iteration, cursor,
                   runs, first_plan>>

\* the steps of calculate_distribution the whole program can take
PlannerNext ==
    \/ EnterCalculateDistribution
    \/ ComputeSpeeds
    \/ SplitNextUnit
    \/ StoreEstimates
    \/ BalanceExhausted
    \/ BalanceWithinTolerance
    \/ BalanceNoMove
    \/ BalanceMove
    \/ Replan

\* calculate_distribution on any records, and its caller's test of the result
PlanNext ==
    \/ ReturnNone
    \/ CouldNotCalculate
    \/ EnterCalculateDistribution
    \/ SkipUnit
    \/ ComputeSpeeds
    \/ SplitNextUnit
    \/ StoreEstimates
    \/ BalanceExhausted
    \/ BalanceWithinTolerance
    \/ BalanceNoMove
    \/ BalanceMove
    \/ Replan

\* ------------------------------------------------------------------------
\* the game, as the program sees it
\* ------------------------------------------------------------------------
\* replies of the game to the building view request
Responses == {"error", "token", "no_token"}
\* replies, snapshots and request outcomes the game can give at the moment
ResponsesNow == IF env_ok THEN {"token"} ELSE Responses
SnapshotsNow == IF env_ok THEN {RichSnapshot} ELSE SnapshotSet
OutcomesNow == IF env_ok THEN {TRUE} ELSE BOOLEAN

InvolvedCities == {city_id[b] : b \in Buildings}

\* ------------------------------------------------------------------------
\* the requests for the snapshots of the cities
\* ------------------------------------------------------------------------
\* variant: every building asks for its city
NeedsFetch_Always(city, fetched) == TRUE

\* lines 1011 and 1213: a city is taken up when no building before had it
NeedsFetch(city, fetched) == city \notin fetched

\* lines 1009-1034 and 1211-1215: the cities session.get is called for, in
\* the order of the calls, over a list of the cities of the buildings
RECURSIVE Requests(_, _)
Requests(cities, fetched) ==
    IF cities = <<>> THEN <<>>
    ELSE IF NeedsFetch(Head(cities), fetched)
         THEN <<Head(cities)>> \o Requests(Tail(cities), fetched \cup {Head(cities)})
         ELSE Requests(Tail(cities), fetched)

\* lines 1031-1033 and 1211-1215: the requests sent when request k raises,
\* request k included
RequestsUntil(k) == SubSeq(Requests(city_id, {}), 1, k)

\* lines 1211-1232: the cities whose snapshot was stored before request k
AnsweredBefore(k) == {Requests(city_id, {})[i] : i \in 1..(k - 1)}

\* ------------------------------------------------------------------------
\* check_resources: the audit of the plan against the cities
\* ------------------------------------------------------------------------
\* the cities of the distribution, in the order their first building has
\* in the list (the order of the keys of city_requirements)
CityList ==
    LET firsts == SelectSeq(BuildingList,
                            LAMBDA b : \A j \in 1..(b - 1) : city_id[j] # city_id[b])
    IN  [i \in 1..Len(firsts) |-> city_id[firsts[i]]]

\* lines 1021-1029: what the plan of building b needs in dimension d
BuildingRequirement(b, d) ==
    SumSeq([k \in 1..Len(assignments[b]) |->
              IF assignments[b][k][1] \in DOMAIN unit_data[b]
              THEN unit_data[b][assignments[b][k][1]][d] * assignments[b][k][2]
              ELSE 0])

\* lines 1009-1029: city_requirements[city]
CityRequirements(city) ==
    [d \in Dims |->
        SumSeq([b \in 1..BuildingCount |->
                  IF city_id[b] = city THEN BuildingRequirement(b, d) ELSE 0])]

\* the resources in the order check_resources tests them, with the names
\* it reports them under
ResourceNames ==
    <<<<"wood", "Wood">>, <<"wine", "Wine">>, <<"marble", "Marble">>,
      <<"crystal", "Crystal">>, <<"sulfur", "Sulfur">>>>

\* variant: an amount that is exactly covered counts as short
Short_OrEqual(required, available) == required >= available

\* lines 1053 and 1058-1067: the test that reports a shortage
Short(required, available) == required > available

\* lines 1057-1067: the dict missing of one city
MissingOf(requirements, available) ==
    LET all == [i \in 1..Len(ResourceNames) |->
                   <<ResourceNames[i][2],
                     requirements[ResourceNames[i][1]] - available[ResourceNames[i][1]],
                     Short(requirements[ResourceNames[i][1]],
                           available[ResourceNames[i][1]])>>]
        short == SelectSeq(all, LAMBDA e : e[3])
    IN  [i \in 1..Len(short) |-> <<short[i][1], short[i][2]>>]

\* lines 999-1075: the result for the snapshots the cities answered with
check_resources(snapshot) ==
    LET citizens == SelectSeq(CityList,
                        LAMBDA c : Short(CityRequirements(c).citizens, snapshot[c].citizens))
        resources == SelectSeq(CityList,
                        LAMBDA c : MissingOf(CityRequirements(c), snapshot[c]) # <<>>)
    IN  [available |-> snapshot,
         missing_citizens |->
             [i \in 1..Len(citizens) |->
                 <<citizens[i],
                   CityRequirements(citizens[i]).citizens - snapshot[citizens[i]].citizens>>],
         missing_resources |->
             [i \in 1..Len(resources) |->
                 <<resources[i], MissingOf(CityRequirements(resources[i]),
                                           snapshot[resources[i]])>>]]

\* lines 523-526 and 1032: the request for a city raises in check_resources,
\* which no except clause of autoRecruitment catches (line 700 catches
\* KeyboardInterrupt alone), and the error leaves autoRecruitment
AuditRaises ==
    /\ pc = "planned"
    /\ runs = 1
    /\ ~Falsy(distribution)
    /\ ~env_ok
    /\ \E k \in 1..Len(Requests(city_id, {})) : city_requests' = RequestsUntil(k)
    /\ pc' = "failed"
    /\ UNCHANGED <<input_vars, plan_vars, cycle_vars, caller_vars, is_busy,
                   queue_remaining_time, cursor>>

\* lines 523-526: the plan is audited
AuditCities ==
    /\ pc = "planned"
    /\ runs = 1
    /\ ~Falsy(distribution)
    /\ \E snapshot \in [InvolvedCities -> SnapshotsNow] :
          resource_check' = check_resources(snapshot)
    /\ city_requests' = Requests(city_id, {})
    /\ pc' = "audited"
    /\ UNCHANGED <<input_vars, plan_vars, cycle_vars, is_busy, queue_remaining_time, cursor,
                   city_growth_rates, time_estimates, growth_rate_fetches,
                   immediate_vars, background_vars, prompt_vars>>

\* ------------------------------------------------------------------------
\* estimate_recruitment_time
\* ------------------------------------------------------------------------
\* a Python number: a float, or float('inf')
Finite(x) == [inf |-> FALSE, f |-> x]
Infinity == [inf |-> TRUE, f |-> FloatZero]
\* an int n >= 0 used as a float
NumOfInt(n) == Finite(IF n = 0 THEN FloatZero ELSE FloatOfInt(n))
\* variant: x >= y, so that a later city with the same total takes over
NumGreater_OrEqual(x, y) == x.inf \/ (~y.inf /\ ~FloatLess(x.f, y.f))

\* x > y
NumGreater(x, y) == ~y.inf /\ (x.inf \/ FloatLess(y.f, x.f))

\* the literal 0.8: the float nearest to 4/5
Point8 == FloatDiv(FloatOfInt(4), FloatOfInt(5))

\* lines 190-198: citizens_needed and build_time_seconds of a city
citizens_needed(city) == CityRequirements(city).citizens
build_time_seconds(city) ==
    SumSeq([b \in 1..BuildingCount |->
              IF city_id[b] = city
              THEN SumSeq([k \in 1..Len(assignments[b]) |->
                             IF assignments[b][k][1] \in DOMAIN unit_data[b]
                             THEN time_per_unit(b, assignments[b][k][1]) * assignments[b][k][2]
                             ELSE 0])
                   + (IF assignments[b] # <<>> THEN 10 ELSE 0)
              ELSE 0])

\* variant: without a growth rate the city is taken to need no wait
citizen_wait_seconds_ZeroWhenUnknown(needed, available, growth_rate) ==
    IF needed <= available THEN NumOfInt(0)
    ELSE IF growth_rate > 0
    THEN Finite(FloatMulInt(3600, FloatDiv(FloatOfInt(needed - available),
                                           FloatOfInt(growth_rate))))
    ELSE NumOfInt(0)

\* lines 208-216
citizen_wait_seconds(needed, available, growth_rate) ==
    IF needed <= available THEN NumOfInt(0)
    ELSE IF growth_rate > 0
    THEN Finite(FloatMulInt(3600, FloatDiv(FloatOfInt(needed - available),
                                           FloatOfInt(growth_rate))))
    ELSE Infinity

\* lines 222-228: citizen_wait * 0.8 + build_time
total_time_seconds(wait, build_time) ==
    IF wait.inf THEN Infinity
    ELSE LET effective_citizen_wait ==
                 IF wait.f.m = <<>> THEN FloatZero ELSE FloatMul(wait.f, Point8)
         IN  IF build_time = 0 THEN Finite(effective_citizen_wait)
             ELSE IF effective_citizen_wait.m = <<>> THEN NumOfInt(build_time)
             ELSE Finite(FloatAdd(effective_citizen_wait, FloatOfInt(build_time)))

\* the entry of estimates['by_city'] for one city
CityEstimate(city, available, rates) ==
    LET wait == citizen_wait_seconds(citizens_needed(city), available[city].citizens,
                                     rates[city])
    IN  [citizens_needed |-> citizens_needed(city),
         citizens_available |-> available[city].citizens,
         growth_rate |-> rates[city],
         citizen_wait_seconds |-> wait,
         build_time_seconds |-> build_time_seconds(city),
         total_time_seconds |-> total_time_seconds(wait, build_time_seconds(city))]

NoCity == "None"

\* lines 200-231: max_total and bottleneck_city after the entries by_city
RECURSIVE Bottleneck(_, _, _)
Bottleneck(by_city, max_total, bottleneck_city) ==
    IF by_city = <<>> THEN [total_time_seconds |-> max_total, bottleneck |-> bottleneck_city]
    ELSE IF NumGreater(Head(by_city)[2].total_time_seconds, max_total)
         THEN Bottleneck(Tail(by_city), Head(by_city)[2].total_time_seconds, Head(by_city)[1])
         ELSE Bottleneck(Tail(by_city), max_total, bottleneck_city)

\* lines 157-237
estimate_recruitment_time(available, rates) ==
    LET by_city == [i \in 1..Len(CityList) |->
                       <<CityList[i], CityEstimate(CityList[i], available, rates)>>]
        overall == Bottleneck(by_city, NumOfInt(0), NoCity)
    IN  [by_city |-> by_city,
         total_time_seconds |-> overall.total_time_seconds,
         bottleneck |-> overall.bottleneck]

\* growth rates a town hall may show: none that can be read, or 10 per hour
GrowthRateSet == {0, 10}

\* lines 528-542: the growth rates are fetched and the time is estimated
EstimateTime ==
    /\ pc = "audited"
    /\ city_growth_rates' \in [InvolvedCities -> GrowthRateSet]
    /\ growth_rate_fetches' = growth_rate_fetches + 1
    /\ time_estimates' =
          estimate_recruitment_time(resource_check.available, city_growth_rates')
    /\ pc' = "estimated"
    /\ UNCHANGED <<input_vars, plan_vars, loop_vars, is_busy, queue_remaining_time, cursor,
                   resource_check, immediate_vars, background_vars, prompt_vars>>

\* ------------------------------------------------------------------------
\* execute_recruitment_loop: helpers
\* ------------------------------------------------------------------------
None == [none |-> TRUE]

\* variant: the busy flag is read from the queue the game shows
fetch_building_data_ReadsQueue(b, response) ==
    IF response = "error" THEN None
    ELSE [is_busy |-> live_busy[b],
          queue_remaining_time |-> 0,
          action_code |-> (response = "token")]

\* fetch_building_data called on the record of building b: None when the
\* request or its decoding fails, else a fresh record whose busy flag is
\* copied from the record passed in (line 827)
fetch_building_data(b, response) ==
    IF response = "error" THEN None
    ELSE [is_busy |-> is_busy[b],
          queue_remaining_time |-> 0,
          action_code |-> (response = "token")]

\* variant: the sum is overwritten by every building instead of added to
total_remaining_LastBuilding ==
    SumSeq(Values(remaining_assignments[BuildingCount]))

\* lines 1195-1201: the units remaining over all buildings
total_remaining ==
    SumSeq([b \in 1..BuildingCount |-> SumSeq(Values(remaining_assignments[b]))])

\* int(building_total_remaining * 0.20), at least 1
Threshold(building_total_remaining) == Max(1, building_total_remaining \div 5)

SetMin(S) == CHOOSE x \in S : \A y \in S : x <= y

\* variant: the quantity still needed does not limit the quantity
MaxPossible_Unbounded(qty_needed, ud, available) ==
    SetMin({available[d] \div ud[d] : d \in {e \in Dims : ud[e] > 0}})

\* variant: only the citizens limit the quantity
MaxPossible_CitizensOnly(qty_needed, ud, available) ==
    IF ud.citizens > 0 THEN Min(qty_needed, available.citizens \div ud.citizens)
    ELSE qty_needed

\* lines 1285-1309: what the working copy can pay of one unit type
MaxPossible(qty_needed, ud, available) ==
    SetMin({qty_needed} \cup {available[d] \div ud[d] : d \in {e \in Dims : ud[e] > 0}})

\* variant: the cost is taken out twice
Deduct_Twice(available, ud, qty) == [d \in Dims |-> available[d] - 2 * ud[d] * qty]

\* lines 1316-1321 and 1328-1333
Deduct(available, ud, qty) == [d \in Dims |-> available[d] - ud[d] * qty]

\* lines 1278-1321: the order a building can place, unit type by unit type
RECURSIVE CanRecruit(_, _, _)
CanRecruit(b, remaining, available) ==
    IF remaining = <<>> THEN <<>>
    ELSE LET unit_idx == Head(remaining)[1]
             qty_needed == Head(remaining)[2]
         IN  IF unit_idx \notin DOMAIN unit_data[b]
             THEN CanRecruit(b, Tail(remaining), available)
             ELSE LET ud == unit_data[b][unit_idx]
                      max_possible == MaxPossible(qty_needed, ud, available)
                  IN  IF max_possible > 0
                      THEN <<<<unit_idx, max_possible>>>> \o
                           CanRecruit(b, Tail(remaining), Deduct(available, ud, max_possible))
                      ELSE CanRecruit(b, Tail(remaining), available)

\* variant: a placed order leaves the pool of its city as it was
DeductOrder_Nothing(b, to_recruit, pool) == pool

\* variant: only the citizens of the order are taken out of the pool
RECURSIVE DeductOrder_CitizensOnly(_, _, _)
DeductOrder_CitizensOnly(b, to_recruit, pool) ==
    IF to_recruit = <<>> THEN pool
    ELSE DeductOrder_CitizensOnly(b, Tail(to_recruit),
             [pool EXCEPT !.citizens =
                 @ - unit_data[b][Head(to_recruit)[1]].citizens * Head(to_recruit)[2]])

\* lines 1326-1333: the pool after the order of building b is taken out
RECURSIVE DeductOrder(_, _, _)
DeductOrder(b, to_recruit, pool) ==
    IF to_recruit = <<>> THEN pool
    ELSE DeductOrder(b, Tail(to_recruit),
                     Deduct(pool, unit_data[b][Head(to_recruit)[1]], Head(to_recruit)[2]))

\* variant: any affordable unit lets the order be placed
MeetsThreshold_AnyUnit(total_can_recruit, threshold) == total_can_recruit > 0

\* line 1324: the test that lets the order of a building be placed
MeetsThreshold(total_can_recruit, threshold) == total_can_recruit >= threshold

\* variant: the ordered quantity is added to what remains
RECURSIVE UpdateRemaining_Add(_, _)
UpdateRemaining_Add(remaining, to_recruit) ==
    IF to_recruit = <<>> THEN remaining
    ELSE UpdateRemaining_Add(Put(remaining, Head(to_recruit)[1],
                                 Get(remaining, Head(to_recruit)[1]) + Head(to_recruit)[2]),
                             Tail(to_recruit))

\* variant: an ordered unit type is dropped whatever is left of it
RECURSIVE UpdateRemaining_Drop(_, _)
UpdateRemaining_Drop(remaining, to_recruit) ==
    IF to_recruit = <<>> THEN remaining
    ELSE UpdateRemaining_Drop(Del(remaining, Head(to_recruit)[1]), Tail(to_recruit))

\* lines 1416-1419: the remaining assignments after a placed order
RECURSIVE UpdateRemaining(_, _)
UpdateRemaining(remaining, to_recruit) ==
    IF to_recruit = <<>> THEN remaining
    ELSE LET unit_idx == Head(to_recruit)[1]
             left == Get(remaining, unit_idx) - Head(to_recruit)[2]
         IN  UpdateRemaining(IF left <= 0 THEN Del(remaining, unit_idx)
                             ELSE Put(remaining, unit_idx, left),
                             Tail(to_recruit))

RECURSIVE AddSubmitted(_, _)
AddSubmitted(received, to_recruit) ==
    IF to_recruit = <<>> THEN received
    ELSE AddSubmitted([received EXCEPT ![Head(to_recruit)[1]] = @ + Head(to_recruit)[2]],
                      Tail(to_recruit))

\* ------------------------------------------------------------------------
\* autoRecruitment: the prompts
\* ------------------------------------------------------------------------
\* answers the operator gives to "Proceed with recruitment? [Y/n]": Enter,
\* a refusal, and the key that leads back to the menu
ConfirmAnswers == {"", "N", "'"}

\* str.lower() on the answers read() lets through
Lower(answer) ==
    IF answer = "N" THEN "n" ELSE IF answer = "Y" THEN "y" ELSE answer

\* variant: only the menu key cancels
Cancels_MenuKeyOnly(answer) == answer = "'"

\* line 635: confirm == "'" or confirm.lower() == "n"
Cancels(answer) == answer = "'" \/ Lower(answer) = "n"

\* lines 267-271, 324-328, 406-410 and 474-478: at a prompt before the plan
\* the operator asks for the menu, and autoRecruitment returns
BackToMenu ==
    /\ pc = "start"
    /\ runs = 1
    /\ confirm' = "'"
    /\ event_set' = TRUE
    /\ pc' = "cancelled"
    /\ UNCHANGED <<input_vars, plan_vars, loop_vars, audit_vars, immediate_vars,
                   background_vars, is_busy, queue_remaining_time, cursor>>

\* lines 544-641: the plan is shown and the operator is asked to confirm
Confirm ==
    /\ pc = "estimated"
    /\ confirm' \in ConfirmAnswers
    /\ pc' = IF Cancels(confirm') THEN "cancelled" ELSE "confirmed"
    /\ event_set' = (event_set \/ Cancels(confirm'))
    /\ UNCHANGED <<input_vars, plan_vars, loop_vars, audit_vars, immediate_vars,
                   background_vars, is_busy, queue_remaining_time, cursor>>

PromptNext == BackToMenu \/ Confirm

\* ------------------------------------------------------------------------
\* autoRecruitment: the choice of the execution mode (lines 645-649)
\* ------------------------------------------------------------------------
has_shortages ==
    resource_check.missing_resources # <<>> \/ resource_check.missing_citizens # <<>>
wait_for_busy == \E b \in Buildings : is_busy[b]

\* ------------------------------------------------------------------------
\* execute_recruitment: every order is placed at once
\* ------------------------------------------------------------------------
\* lines 685-689 and 1120: the plan can be placed at once
StartImmediate ==
    /\ pc = "confirmed"
    /\ ~(has_shortages \/ wait_for_busy)
    /\ success' = TRUE
    /\ attempts' = <<>>
    /\ cursor' = 1
    /\ pc' = "execute"
    /\ resource_check' = NoAudit
    /\ city_growth_rates' = <<>>
    /\ time_estimates' = NoEstimate
    /\ city_requests' = <<>>
    /\ UNCHANGED <<input_vars, plan_vars, cycle_vars, is_busy, queue_remaining_time,
                   background_vars, prompt_vars, growth_rate_fetches>>

\* variant: the flag tells how the last building went
SuccessAfter_LastOnly(flag, token, posted) == token /\ posted

\* lines 1144-1147 and 1169-1171: the flag after one building
SuccessAfter(flag, token, posted) == IF token /\ posted THEN flag ELSE FALSE

\* lines 1123-1171: the loop body for the building at the cursor
ExecuteBuilding ==
    /\ pc = "execute"
    /\ cursor <= BuildingCount
    /\ \E fetched \in OutcomesNow, posted \in OutcomesNow :
        LET b == cursor
            token == action_code[b] \/ fetched
        IN  IF assignments[b] = <<>>
            THEN UNCHANGED <<success, attempts, submitted, live_busy>>
            ELSE /\ success' = SuccessAfter(success, token, posted)
                 /\ attempts' =
                       Append(attempts,
                              [building |-> b, token |-> token,
                               to_recruit |-> IF token THEN assignments[b] ELSE <<>>,
                               raised |-> token /\ ~posted])
                 /\ IF token /\ posted
                    THEN /\ submitted' = [submitted EXCEPT ![b] =
                                              AddSubmitted(@, assignments[b])]
                         /\ live_busy' = [live_busy EXCEPT ![b] = TRUE]
                    ELSE UNCHANGED <<submitted, live_busy>>
    /\ cursor' = cursor + 1
    /\ UNCHANGED <<input_vars, plan_vars, audit_vars, background_vars, prompt_vars, is_busy,
                   queue_remaining_time, action_code, remaining_assignments,
                   city_resources, cycle_snapshot, buildings_to_recruit, pc,
                   env_ok, notice, sleep_vars, city_requests>>

\* line 1173: the flag is returned
ExecuteReturns ==
    /\ pc = "execute"
    /\ cursor > BuildingCount
    /\ pc' = "executed"
    /\ event_set' = TRUE
    /\ UNCHANGED <<input_vars, plan_vars, loop_vars, audit_vars, immediate_vars,
                   background_vars, confirm, is_busy, queue_remaining_time, cursor>>

ImmediateNext ==
    \/ StartImmediate
    \/ ExecuteBuilding
    \/ ExecuteReturns

\* ------------------------------------------------------------------------
\* execute_recruitment_loop, step by step
\* ------------------------------------------------------------------------
\* lines 646-671 and 1185-1191: the plan cannot be placed at once, the try
\* statement is entered, the loop makes its copy of the plan and fetches the
\* growth rates for its status lines; the results of the audit are not read
\* again
StartLoop ==
    /\ pc = "confirmed"
    /\ (has_shortages \/ wait_for_busy)
    /\ remaining_assignments' = [b \in Buildings |-> assignments[b]]
    /\ cursor' = 0
    /\ pc' = "cycle"
    /\ bg' = "try"
    /\ resource_check' = NoAudit
    /\ city_growth_rates' = <<>>
    /\ growth_rate_fetches' = growth_rate_fetches + 1
    /\ time_estimates' = NoEstimate
    /\ city_requests' = <<>>
    /\ event_set' = TRUE
    /\ UNCHANGED <<input_vars, plan_vars, cycle_snapshot, is_busy, queue_remaining_time,
                   action_code, city_resources, buildings_to_recruit, live_busy,
                   submitted, env_ok, notice, immediate_vars, error_notice, logged_out,
                   confirm, sleep_vars>>

\* lines 1203-1206: nothing remains, sendToBot is called with the notice
\* and the loop is left, by the break or by the error sendToBot raised
LoopComplete ==
    /\ pc = "cycle"
    /\ total_remaining <= 0
    /\ notice' = TRUE
    /\ \E sent \in OutcomesNow : pc' = IF sent THEN "done" ELSE "raised"
    /\ wait_seconds' = 0
    /\ UNCHANGED <<input_vars, caller_vars, plan_vars, city_requests, can_recruit_building, cycle_snapshot, is_busy, queue_remaining_time, action_code,
                   remaining_assignments, city_resources, buildings_to_recruit,
                   cursor, live_busy, submitted, env_ok>>

\* lines 1208-1248: one snapshot per city of the distribution
RefreshResources ==
    /\ pc = "cycle"
    /\ ~(total_remaining <= 0)
    /\ \E snapshot \in [InvolvedCities -> SnapshotsNow] : city_resources' = snapshot
    /\ cycle_snapshot' = city_resources'
    /\ buildings_to_recruit' = <<>>
    /\ cursor' = 1
    /\ pc' = "evaluate"
    /\ wait_seconds' = 0
    /\ city_requests' = Requests(city_id, {})
    /\ UNCHANGED <<input_vars, caller_vars, plan_vars, can_recruit_building, is_busy, queue_remaining_time, action_code,
                   remaining_assignments, live_busy, submitted, env_ok, notice>>

\* lines 1214-1215: the city request raises, nothing in the loop catches it
RefreshRaises ==
    /\ pc = "cycle"
    /\ ~(total_remaining <= 0)
    /\ ~env_ok
    /\ \E k \in 1..Len(Requests(city_id, {})) :
          /\ city_requests' = RequestsUntil(k)
          /\ \E snapshot \in [AnsweredBefore(k) -> SnapshotsNow] : city_resources' = snapshot
    /\ pc' = "raised"
    /\ wait_seconds' = 0
    /\ UNCHANGED <<input_vars, caller_vars, plan_vars, can_recruit_building, cycle_snapshot, is_busy, queue_remaining_time, action_code,
                   remaining_assignments, buildings_to_recruit,
                   cursor, live_busy, submitted, env_ok, notice>>

\* lines 1250-1342: the loop body for the building at the cursor
EvaluateBuilding ==
    /\ pc = "evaluate"
    /\ cursor <= BuildingCount
    /\ \E response \in ResponsesNow :
        LET b == cursor
            remaining == remaining_assignments[b]
            polled == remaining # <<>> /\ is_busy[b]
            data == fetch_building_data(b, response)
            refreshed == polled /\ data # None
            busy_now == IF refreshed THEN data.is_busy ELSE is_busy[b]
            city == city_id[b]
            building_total_remaining == SumSeq(Values(remaining))
            threshold == Threshold(building_total_remaining)
            can_recruit == CanRecruit(b, remaining, city_resources[city])
            total_can_recruit == SumSeq(Values(can_recruit))
        IN  /\ is_busy' = [is_busy EXCEPT ![b] = busy_now]
            /\ queue_remaining_time' =
                  IF refreshed
                  THEN [queue_remaining_time EXCEPT ![b] = data.queue_remaining_time]
                  ELSE queue_remaining_time
            /\ action_code' =
                  IF refreshed THEN [action_code EXCEPT ![b] = data.action_code]
                  ELSE action_code
            /\ can_recruit_building' =
                  IF remaining # <<>> /\ ~busy_now THEN can_recruit ELSE <<>>
            /\ IF remaining # <<>> /\ ~busy_now
                  /\ MeetsThreshold(total_can_recruit, threshold)
               THEN /\ city_resources' =
                          [city_resources EXCEPT ![city] =
                              DeductOrder(b, can_recruit, @)]
                    /\ buildings_to_recruit' =
                          Append(buildings_to_recruit,
                                 [building |-> b,
                                  to_recruit |-> can_recruit,
                                  total |-> total_can_recruit,
                                  threshold |-> threshold,
                                  building_remaining |-> building_total_remaining])
               ELSE UNCHANGED <<city_resources, buildings_to_recruit>>
    /\ cursor' = cursor + 1
    /\ UNCHANGED <<input_vars, caller_vars, plan_vars, city_requests, wait_seconds, cycle_snapshot, remaining_assignments, pc, live_busy,
                   submitted, env_ok, notice>>

\* variant: the loop sleeps the short interval after every cycle
WaitAfter_AlwaysShort(ordered) == 60

\* lines 1345-1361 and 1427-1428: the sleep at the end of a cycle, after
\* orders were prepared and tried or after none was prepared
WaitAfter(ordered) == IF ordered THEN 60 ELSE 300

\* lines 1345-1361: no building met its threshold, wait(300) and the next
\* cycle; its first statements rebuild the cycle's pool and order list
LongWait ==
    /\ pc = "evaluate"
    /\ cursor > BuildingCount
    /\ buildings_to_recruit = <<>>
    /\ city_resources' = <<>>
    /\ cycle_snapshot' = <<>>
    /\ cursor' = 0
    /\ pc' = "cycle"
    /\ can_recruit_building' = <<>>
    /\ wait_seconds' = WaitAfter(buildings_to_recruit # <<>>)
    /\ city_requests' = <<>>
    /\ UNCHANGED <<input_vars, caller_vars, plan_vars, is_busy, queue_remaining_time, action_code,
                   remaining_assignments, buildings_to_recruit, live_busy,
                   submitted, env_ok, notice>>

\* lines 1363-1369: the prepared orders are about to be placed
StartRecruiting ==
    /\ pc = "evaluate"
    /\ cursor > BuildingCount
    /\ buildings_to_recruit # <<>>
    /\ cursor' = 1
    /\ pc' = "submit"
    /\ can_recruit_building' = <<>>
    /\ UNCHANGED <<input_vars, caller_vars, plan_vars, city_requests, wait_seconds, cycle_snapshot, is_busy, queue_remaining_time, action_code,
                   remaining_assignments, city_resources, buildings_to_recruit,
                   live_busy, submitted, env_ok, notice>>

\* variant: remaining_assignments is the dict of the plan itself
PlanAfterUpdate_SameDict(planned, remaining_after) == remaining_after

\* lines 1187 and 1416-1419: the plan of a building after its remaining
\* assignments were updated; the loop works on a copy, the plan is as it was
PlanAfterUpdate(planned, remaining_after) == planned

\* variant: the order is posted whether or not a token was obtained
Placed_WithoutToken(code, posted) == posted

\* lines 1393-1395 and 1407-1425: the order is placed when a token was
\* obtained and the post did not raise
Placed(code, posted) == code /\ posted

\* lines 1369-1425: the loop body for the prepared order at the cursor
SubmitOrder ==
    /\ pc = "submit"
    /\ cursor <= Len(buildings_to_recruit)
    /\ \E fetched \in OutcomesNow, posted \in OutcomesNow :
        LET recruit_info == buildings_to_recruit[cursor]
            b == recruit_info.building
            to_recruit == recruit_info.to_recruit
            code == action_code[b] \/ fetched
        IN  /\ action_code' = [action_code EXCEPT ![b] = code]
            /\ IF Placed(code, posted)
               THEN /\ remaining_assignments' =
                          [remaining_assignments EXCEPT ![b] =
                              UpdateRemaining(@, to_recruit)]
                    /\ assignments' =
                          [assignments EXCEPT ![b] =
                              PlanAfterUpdate(@, remaining_assignments'[b])]
                    /\ is_busy' = [is_busy EXCEPT ![b] = TRUE]
                    /\ submitted' = [submitted EXCEPT ![b] = AddSubmitted(@, to_recruit)]
                    /\ live_busy' = [live_busy EXCEPT ![b] = TRUE]
               ELSE UNCHANGED <<remaining_assignments, assignments, is_busy, submitted,
                                live_busy>>
    /\ cursor' = cursor + 1
    /\ UNCHANGED <<input_vars, caller_vars, estimated_time, iteration, runs, first_plan,
                   speed_factors, total_speed, distribution, unplaced, city_requests, sleep_vars, cycle_snapshot, queue_remaining_time, city_resources,
                   buildings_to_recruit, pc, env_ok, notice>>

\* lines 1427-1428: wait(60) and the next cycle
ShortWait ==
    /\ pc = "submit"
    /\ cursor > Len(buildings_to_recruit)
    /\ city_resources' = <<>>
    /\ cycle_snapshot' = <<>>
    /\ buildings_to_recruit' = <<>>
    /\ cursor' = 0
    /\ pc' = "cycle"
    /\ can_recruit_building' = <<>>
    /\ wait_seconds' = WaitAfter(buildings_to_recruit # <<>>)
    /\ city_requests' = <<>>
    /\ UNCHANGED <<input_vars, caller_vars, plan_vars, is_busy, queue_remaining_time, action_code,
                   remaining_assignments, live_busy, submitted, env_ok, notice>>

\* ------------------------------------------------------------------------
\* autoRecruitment: the try statement around the loop (lines 670-683)
\* ------------------------------------------------------------------------
\* variant: an error raised in the except clause leaves at once
AfterHandler_NoCleanup(sent) == IF sent THEN "handled" ELSE "crashed"

\* where control is when the except clause has ended: in both cases the
\* finally clause comes next
AfterHandler(sent) == IF sent THEN "handled" ELSE "handler_raised"

\* lines 679-681: an error left the loop, sendToBot is called with it
CatchException ==
    /\ bg = "try"
    /\ pc = "raised"
    /\ error_notice' = TRUE
    /\ \E sent \in OutcomesNow : bg' = AfterHandler(sent)
    /\ UNCHANGED <<input_vars, plan_vars, loop_vars, audit_vars, immediate_vars,
                   is_busy, queue_remaining_time, pc, cursor, logged_out, prompt_vars>>

\* lines 682-683: the finally clause, after the loop returned or after the
\* except clause; an error raised in the except clause goes on from here
Logout ==
    /\ \/ bg = "try" /\ pc = "done"
       \/ bg \in {"handled", "handler_raised"}
    /\ logged_out' = TRUE
    /\ bg' = IF bg = "handler_raised" THEN "crashed" ELSE "returned"
    /\ UNCHANGED <<input_vars, plan_vars, loop_vars, audit_vars, immediate_vars,
                   is_busy, queue_remaining_time, pc, cursor, error_notice, prompt_vars>>

BackgroundNext == CatchException \/ Logout

AuditNext == AuditCities \/ AuditRaises \/ EstimateTime

LoopNext ==
    \/ StartLoop
    \/ LoopComplete
    \/ RefreshResources
    \/ RefreshRaises
    \/ EvaluateBuilding
    \/ LongWait
    \/ StartRecruiting
    \/ SubmitOrder
    \/ ShortWait

\* ------------------------------------------------------------------------
\* the game, while the loop sleeps
\* ------------------------------------------------------------------------
\* the queues that run have run empty
QueueFinishes ==
    /\ pc = "cycle"
    /\ \E b \in Buildings : live_busy[b]
    /\ live_busy' = [b \in Buildings |-> FALSE]
    /\ UNCHANGED <<input_vars, caller_vars, plan_vars, city_requests, sleep_vars, cycle_snapshot, is_busy, queue_remaining_time, action_code,
                   remaining_assignments, city_resources, buildings_to_recruit,
                   pc, cursor, submitted, env_ok, notice>>

\* from now on every city is rich and every request succeeds
EnvSettles ==
    /\ pc = "cycle"
    /\ ~env_ok
    /\ env_ok' = TRUE
    /\ UNCHANGED <<input_vars, caller_vars, plan_vars, city_requests, sleep_vars, cycle_snapshot, is_busy, queue_remaining_time, action_code,
                   remaining_assignments, city_resources, buildings_to_recruit,
                   pc, cursor, live_busy, submitted, notice>>

GameNext == QueueFinishes \/ EnvSettles

Next ==
    \/ PlannerNext
    \/ AuditNext
    \/ PromptNext
    \/ ImmediateNext
    \/ LoopNext
    \/ BackgroundNext
    \/ GameNext

Spec == Init /\ [][Next]_vars

PlanSpec == PlanInit /\ [][PlanNext]_vars

\* the loop does not stop between two of its steps, and a queue that runs
\* has run empty after one of the waits
FairSpec == Spec /\ WF_vars(LoopNext) /\ SF_vars(QueueFinishes)

\* ------------------------------------------------------------------------
\* Properties of the planner (checked under PlanSpec)
\* ------------------------------------------------------------------------
Requested(unit_idx) == Get(recruitment_order, unit_idx)
HasCapableBuilding(unit_idx) == \E b \in Buildings : unit_idx \in DOMAIN unit_data[b]
AssignedTotal(unit_idx) ==
    SumSeq([b \in 1..BuildingCount |-> Get(assignments[b], unit_idx)])
Skew == max_time(assignments) - min_time(assignments)

\* C1: once the split is complete, through every balancing move and when
\* calculate_distribution has returned, the quantities assigned of every
\* requested unit type that some building can build add up to the quantity
\* requested
C1_AssignedSumsToRequested ==
    pc \in {"balance", "planned"} =>
        \A unit_idx \in Units :
            (Requested(unit_idx) > 0 /\ HasCapableBuilding(unit_idx))
                => AssignedTotal(unit_idx) = Requested(unit_idx)

\* a plan was returned after at least one balancing move, with the units of a
\* requested type spread over two buildings
C1_Witness ==
    /\ pc = "planned"
    /\ iteration >= 2
    /\ \E unit_idx \in Units, b1, b2 \in Buildings :
          /\ b1 # b2
          /\ Get(assignments[b1], unit_idx) > 0
          /\ Get(assignments[b2], unit_idx) > 0
          /\ Get(assignments[b1], unit_idx) + Get(assignments[b2], unit_idx)
                = Requested(unit_idx)

\* C2: in every state of planning a building holds an assignment only for
\* unit types of its capability map
C2_OnlyCapableAssigned ==
    \A b \in Buildings : KeySet(assignments[b]) \subseteq DOMAIN unit_data[b]

\* a balancing move has been made while one building holds a unit type that
\* another building cannot build
C2_Witness ==
    /\ pc = "balance"
    /\ iteration >= 1
    /\ \E b1, b2 \in Buildings, unit_idx \in Units :
          /\ HasKey(assignments[b1], unit_idx)
          /\ unit_idx \notin DOMAIN unit_data[b2]
          /\ assignments[b2] # <<>>

\* C9: when balance_distribution has returned, the skew is within the
\* tolerance or no unit type can be moved from the slowest to the fastest
\* building
C9_BalancedOrFixedPoint ==
    pc = "planned" => (Skew <= tolerance \/ ~moved(assignments))

\* C10: a second call of calculate_distribution, on the records the first
\* call returned, returns the assignments of the first call
C10_SecondPlanEqualsFirst ==
    (pc = "planned" /\ runs = 2) => assignments = first_plan

\* the second call has returned a plan that balancing moves went into
C10_Witness ==
    /\ pc = "planned"
    /\ runs = 2
    /\ iteration >= 2
    /\ \E b \in Buildings : first_plan[b] # <<>>

\* the speeds as exact fractions over a common denominator:
\* 1 / time_per_unit = SpeedNum / CommonTime
RECURSIVE Gcd(_, _)
Gcd(a, b) == IF b = 0 THEN a ELSE Gcd(b, a % b)
Lcm(a, b) == (a \div Gcd(a, b)) * b

RECURSIVE CommonTime(_, _)
CommonTime(cap, unit_idx) ==
    IF cap = <<>> THEN 1
    ELSE LET t == time_per_unit(Head(cap), unit_idx)
             rest == CommonTime(Tail(cap), unit_idx)
         IN  IF t > 0 THEN Lcm(t, rest) ELSE rest

SpeedNum(b, unit_idx, common) ==
    LET t == time_per_unit(b, unit_idx)
    IN  IF t > 0 THEN common \div t ELSE common

\* floor(total_qty * speed_i / sum of the speeds)
ExactShare(cap, unit_idx, total_qty, i) ==
    LET common == CommonTime(cap, unit_idx)
    IN  (total_qty * SpeedNum(cap[i], unit_idx, common))
            \div SumSeq([j \in 1..Len(cap) |-> SpeedNum(cap[j], unit_idx, common)])

\* C11: when the split is complete and before the first balancing iteration,
\* every capable building but the last holds floor(total * speed / sum of
\* speeds) of a requested unit type, and the last one holds the rest
C11_ProportionalFloor ==
    (pc = "balance" /\ iteration = 0) =>
        \A k \in 1..Len(recruitment_order) :
            LET unit_idx == recruitment_order[k][1]
                total_qty == recruitment_order[k][2]
                cap == capable_buildings(unit_idx)
                others == SumSeq([j \in 1..(Len(cap) - 1) |->
                                    ExactShare(cap, unit_idx, total_qty, j)])
            IN  \A i \in 1..Len(cap) :
                    Get(assignments[cap[i]], unit_idx)
                        = IF i < Len(cap) THEN ExactShare(cap, unit_idx, total_qty, i)
                          ELSE total_qty - others

\* no building is capable of any requested unit type
NoUnitPlaceable ==
    \A k \in 1..Len(recruitment_order) : ~HasCapableBuilding(recruitment_order[k][1])

\* C12: when calculate_distribution has returned and no building is capable
\* of any requested unit type, the value it returned is empty or null, so
\* that the caller's hard stop is the step that follows.
C12_NoCapableBuildingReturnsNull ==
    (pc = "planned" /\ NoUnitPlaceable) => Falsy(distribution)

\* C13: when calculate_distribution has returned, a requested unit type
\* without a capable building has no assignment in any building and is
\* reported as unplaced.
C13_UnplacedUnitReported ==
    pc = "planned" =>
        \A k \in 1..Len(recruitment_order) :
            LET unit_idx == recruitment_order[k][1]
            IN  ~HasCapableBuilding(unit_idx) =>
                    /\ \A b \in Buildings : ~HasKey(assignments[b], unit_idx)
                    /\ unit_idx \in unplaced

\* ------------------------------------------------------------------------
\* Properties of the execution loop (checked under Spec and FairSpec)
\* ------------------------------------------------------------------------
InLoop == pc \in {"cycle", "evaluate", "submit", "done", "raised"}
RemainingOf(b) == SumSeq(Values(remaining_assignments[b]))
SubmittedOf(b) == SumSeq([i \in 1..Len(UNITS_ORDER) |-> submitted[b][UNITS_ORDER[i]]])
\* the prepared orders of the cycle that have not been handled yet
PendingOrders ==
    IF pc = "evaluate" THEN 1..Len(buildings_to_recruit)
    ELSE IF pc = "submit" THEN cursor..Len(buildings_to_recruit)
    ELSE {}

\* C3: once every city stays rich, every request succeeds and the queues run
\* empty, the loop reaches its end with the completion notice
C3_LoopCompletes == env_ok ~> (pc = "done" /\ notice)

\* C4: when the game answers the re-poll of a building marked busy, the
\* busy flag of the record becomes the live state of the building's queue
C4_RepollReadsLiveState ==
    [][(/\ pc = "evaluate"
        /\ cursor <= BuildingCount
        /\ env_ok
        /\ cursor' = cursor + 1
        /\ is_busy[cursor]
        /\ remaining_assignments[cursor] # <<>>)
          => is_busy'[cursor] = live_busy[cursor]]_vars

\* C5: every order prepared for submission covers at least
\* max(1, floor(0.20 * remaining units of its building))
C5_OrderMeetsThreshold ==
    \A i \in PendingOrders :
        LET recruit_info == buildings_to_recruit[i]
            floor20 == (20 * RemainingOf(recruit_info.building)) \div 100
        IN  /\ SumSeq(Values(recruit_info.to_recruit)) >= floor20
            /\ SumSeq(Values(recruit_info.to_recruit)) >= 1

\* an order that is exactly at the threshold of its building, and smaller
\* than what remains there, is about to be submitted
C5_Witness ==
    /\ pc = "submit"
    /\ \E i \in PendingOrders :
          LET recruit_info == buildings_to_recruit[i]
          IN  /\ SumSeq(Values(recruit_info.to_recruit))
                    = (20 * RemainingOf(recruit_info.building)) \div 100
              /\ SumSeq(Values(recruit_info.to_recruit)) > 1

\* C6: in the loop the remaining quantity of a unit type at a building never
\* exceeds the planned quantity and never grows, and neither does the total
C6_RemainingShrinks ==
    [][/\ InLoop' => \A b \in Buildings, unit_idx \in Units :
              Get(remaining_assignments'[b], unit_idx) <= Get(assignments'[b], unit_idx)
       /\ (InLoop /\ remaining_assignments' # remaining_assignments) =>
            /\ \A b \in Buildings, unit_idx \in Units :
                  Get(remaining_assignments'[b], unit_idx)
                      <= Get(remaining_assignments[b], unit_idx)
            /\ SumSeq([b \in 1..BuildingCount |-> RemainingOf(b)]')
                  <= SumSeq([b \in 1..BuildingCount |-> RemainingOf(b)])]_vars

\* part of the plan of a building has been ordered, part of it remains
C6_Witness ==
    /\ pc = "cycle"
    /\ \E b \in Buildings, unit_idx \in Units :
          /\ Get(remaining_assignments[b], unit_idx) > 0
          /\ Get(remaining_assignments[b], unit_idx) < Get(assignments[b], unit_idx)

\* C7: in the loop, what the game received of a unit type for a building
\* plus what remains of it there is the planned quantity
C7_SubmittedPlusRemaining ==
    InLoop => \A b \in Buildings, unit_idx \in Units :
        submitted[b][unit_idx] + Get(remaining_assignments[b], unit_idx)
            = Get(assignments[b], unit_idx)

\* one building had an order accepted for a part of its plan and another
\* building, whose order was prepared in the same cycle, had none accepted
C7_Witness ==
    /\ pc = "submit"
    /\ cursor > Len(buildings_to_recruit)
    /\ \E b1, b2 \in Buildings :
          /\ SubmittedOf(b1) > 0
          /\ RemainingOf(b1) > 0
          /\ \E i \in 1..Len(buildings_to_recruit) : buildings_to_recruit[i].building = b2
          /\ SubmittedOf(b2) = 0
          /\ RemainingOf(b2) > 0

\* C8: the loop leaves a cycle start for its end, calling sendToBot with the
\* notice, exactly when no building has anything remaining; it returns only
\* after that call, and the end is never reached, and the notice never
\* emitted, while something remains
C8_CompletesIffNothingRemains ==
    [][/\ (pc' = "done" \/ notice') =>
              /\ notice'
              /\ \A b \in Buildings : remaining_assignments'[b] = <<>>
       /\ (pc = "cycle" /\ pc' # "cycle") =>
              /\ notice' <=> (\A b \in Buildings : remaining_assignments[b] = <<>>)
              /\ notice' => pc' \in {"done", "raised"}]_vars

\* the loop has ended after orders were accepted
C8_Witness ==
    /\ pc = "done"
    /\ notice
    /\ \E b \in Buildings : SubmittedOf(b) > 0

\* what the orders prepared in this cycle for the buildings of a city cost
\* in dimension d
OrderCost(recruit_info, d) ==
    SumSeq([k \in 1..Len(recruit_info.to_recruit) |->
              unit_data[recruit_info.building][recruit_info.to_recruit[k][1]][d]
                  * recruit_info.to_recruit[k][2]])
CommittedCost(city, d) ==
    SumSeq([k \in 1..Len(buildings_to_recruit) |->
              IF city_id[buildings_to_recruit[k].building] = city
              THEN OrderCost(buildings_to_recruit[k], d) ELSE 0])

\* C14: while a cycle evaluates its buildings and places its orders, the
\* prepared orders of a city cost together no more than the snapshot the
\* cycle fetched for that city, in citizens and in each resource, and the
\* pool the next building of the city sees is the snapshot less that cost.
C14_OrdersWithinSnapshot ==
    pc \in {"evaluate", "submit"} =>
        \A city \in InvolvedCities, d \in Dims :
            /\ CommittedCost(city, d) <= cycle_snapshot[city][d]
            /\ city_resources[city][d] = cycle_snapshot[city][d] - CommittedCost(city, d)

\* two buildings of one city have an order prepared in the same cycle, and
\* the second was cut down to what the first had left
C14_Witness ==
    /\ pc = "submit"
    /\ Len(buildings_to_recruit) = 2
    /\ city_id[buildings_to_recruit[1].building] = city_id[buildings_to_recruit[2].building]
    /\ buildings_to_recruit[2].total < buildings_to_recruit[2].building_remaining
    /\ \E d \in Dims : city_resources[city_id[1]][d] = 0 /\ cycle_snapshot[city_id[1]][d] > 0

\* ------------------------------------------------------------------------
\* Properties of immediate mode (checked under Spec)
\* ------------------------------------------------------------------------
\* the entries of the log for building b, and those that sent an order
AttemptsAt(b) == {i \in 1..Len(attempts) : attempts[i].building = b}
SubmissionsAt(b) == {i \in AttemptsAt(b) : attempts[i].token}
AllSucceeded ==
    \A i \in 1..Len(attempts) : attempts[i].token /\ ~attempts[i].raised
Received(b) == OrderOf(submitted[b])

\* C15 as stated: when execute_recruitment has returned, every building with
\* a non-empty assignment was sent exactly one order, holding every assigned
\* unit type at its planned quantity, and the flag is true exactly when
\* every such building had a token and its order raised no error.
C15_EveryBuildingSubmitted ==
    pc = "executed" =>
        /\ \A b \in Buildings :
              assignments[b] # <<>> =>
                  /\ Cardinality(SubmissionsAt(b)) = 1
                  /\ \A i \in SubmissionsAt(b) : attempts[i].to_recruit = assignments[b]
        /\ success <=> AllSucceeded

\* C15, amended: when execute_recruitment has returned, every building with
\* a non-empty assignment was tried exactly once, whatever happened at the
\* buildings before it; with a token it was sent exactly one order, holding
\* every assigned unit type at its planned quantity, and without a token it
\* was sent none; a building without an assignment was not tried; the game
\* received the whole assignment of a building whose order raised no error
\* and nothing for the others; the flag is true exactly when every tried
\* building had a token and its order raised no error.
C15_ImmediateMode ==
    pc = "executed" =>
        /\ \A b \in Buildings :
              IF assignments[b] = <<>>
              THEN AttemptsAt(b) = {} /\ submitted[b] = NoUnits
              ELSE /\ Cardinality(AttemptsAt(b)) = 1
                   /\ \A i \in AttemptsAt(b) :
                         /\ attempts[i].token => attempts[i].to_recruit = assignments[b]
                         /\ ~attempts[i].token => attempts[i].to_recruit = <<>>
                         /\ \A unit_idx \in Units :
                               submitted[b][unit_idx] =
                                   IF attempts[i].token /\ ~attempts[i].raised
                                   THEN Get(assignments[b], unit_idx) ELSE 0
        /\ success <=> AllSucceeded

\* the first of two buildings got no token, the second was served, and the
\* flag is false
C15_Witness ==
    /\ pc = "executed"
    /\ Len(attempts) = 2
    /\ ~attempts[1].token
    /\ attempts[2].token /\ ~attempts[2].raised
    /\ SubmittedOf(attempts[2].building) > 0
    /\ ~success

\* ------------------------------------------------------------------------
\* Properties of the background execution (checked under Spec)
\* ------------------------------------------------------------------------
\* C16: an error that left the loop has been reported with sendToBot before
\* anything else happens, and the background execution is never left, by
\* return or by an error, without session.logout having been called.
C16_CaughtAndLoggedOut ==
    /\ (pc = "raised" /\ bg # "try") => error_notice
    /\ bg \in {"returned", "crashed"} => logged_out
    /\ logged_out => bg \in {"returned", "crashed"}

\* sendToBot failed in the except clause, and the session was logged out
C16_Witness ==
    /\ pc = "raised"
    /\ bg = "crashed"
    /\ error_notice
    /\ logged_out

\* C17: the loop is never left while units remain, whatever request failed.
C17_LoopSurvivesTransportFailure ==
    pc \in {"done", "raised"} => total_remaining <= 0

\* C18: no error of sendToBot ends the loop with an error, and no error
\* leaves the background execution.
C18_NotifyFailureContained ==
    /\ ~(pc = "raised" /\ notice)
    /\ bg # "crashed"

\* ------------------------------------------------------------------------
\* Properties of the audit and of the time estimate (checked under Spec)
\* ------------------------------------------------------------------------
\* what the plans of the buildings of a city need of dimension d
NeedOf(city, d) ==
    SumSeq([b \in 1..BuildingCount |->
              IF city_id[b] = city
              THEN SumSeq([i \in 1..Len(UNITS_ORDER) |->
                             Costs(UNITS_ORDER[i])[d] * Get(assignments[b], UNITS_ORDER[i])])
              ELSE 0])
\* d[k] for a key d holds
Value(d, k) == d[IndexOf(d, k)][2]

\* C19: when check_resources has returned, a city is in missing_citizens
\* exactly when its buildings need more citizens than it has, with the
\* difference as the value; it is in missing_resources exactly when some
\* resource is short, and its entry there holds exactly the short
\* resources, each with needed less available.
C19_ShortagesReported ==
    pc = "audited" =>
        /\ KeySet(resource_check.missing_citizens) \subseteq InvolvedCities
        /\ KeySet(resource_check.missing_resources) \subseteq InvolvedCities
        /\ \A city \in InvolvedCities :
              LET available == resource_check.available[city]
                  lack(d) == NeedOf(city, d) - available[d]
              IN  /\ HasKey(resource_check.missing_citizens, city) <=> lack("citizens") > 0
                  /\ HasKey(resource_check.missing_citizens, city) =>
                        Value(resource_check.missing_citizens, city) = lack("citizens")
                  /\ HasKey(resource_check.missing_resources, city) <=>
                        \E i \in 1..Len(ResourceNames) : lack(ResourceNames[i][1]) > 0
                  /\ HasKey(resource_check.missing_resources, city) =>
                        \A i \in 1..Len(ResourceNames) :
                            LET missing == Value(resource_check.missing_resources, city)
                            IN  /\ HasKey(missing, ResourceNames[i][2])
                                      <=> lack(ResourceNames[i][1]) > 0
                                /\ HasKey(missing, ResourceNames[i][2]) =>
                                      Value(missing, ResourceNames[i][2])
                                          = lack(ResourceNames[i][1])

\* one city lacks citizens and wood, another city with a plan lacks nothing
C19_Witness ==
    /\ pc = "audited"
    /\ \E c1, c2 \in InvolvedCities :
          /\ HasKey(resource_check.missing_citizens, c1)
          /\ Value(resource_check.missing_citizens, c1) > 0
          /\ HasKey(resource_check.missing_resources, c1)
          /\ HasKey(Value(resource_check.missing_resources, c1), "Wood")
          /\ ~HasKey(resource_check.missing_citizens, c2)
          /\ ~HasKey(resource_check.missing_resources, c2)
          /\ NeedOf(c2, "citizens") > 0

\* C20: when estimate_recruitment_time has returned, the citizen wait of a
\* city is 0 when it has the citizens its plans need; with a deficit and a
\* positive growth rate it is positive and, cut to whole seconds, within a
\* second of deficit * 3600 / growth rate; with a deficit and no growth rate
\* it is infinite; and the overall estimate is infinite when the wait of
\* some city is.
C20_CitizenWait ==
    pc = "estimated" =>
        /\ {time_estimates.by_city[i][1] : i \in 1..Len(time_estimates.by_city)}
              = InvolvedCities
        /\ \A i \in 1..Len(time_estimates.by_city) :
              LET city == time_estimates.by_city[i][1]
                  wait == time_estimates.by_city[i][2].citizen_wait_seconds
                  needed == NeedOf(city, "citizens")
                  available == resource_check.available[city].citizens
                  growth_rate == city_growth_rates[city]
                  whole == FloatTrunc(wait.f)
              IN  /\ needed <= available => (~wait.inf /\ wait.f = FloatZero)
                  /\ (needed > available /\ growth_rate > 0) =>
                        /\ ~wait.inf
                        /\ wait.f # FloatZero
                        /\ whole * growth_rate <= (needed - available) * 3600
                        /\ (needed - available) * 3600 <= (whole + 1) * growth_rate
                  /\ (needed > available /\ growth_rate = 0) => wait.inf
        /\ (\E i \in 1..Len(time_estimates.by_city) :
                time_estimates.by_city[i][2].citizen_wait_seconds.inf)
              => time_estimates.total_time_seconds.inf

\* the first city waits a known time for its citizens, the second an
\* unknown time, and the overall estimate is unknown
C20_Witness ==
    /\ pc = "estimated"
    /\ Len(time_estimates.by_city) = 2
    /\ ~time_estimates.by_city[1][2].citizen_wait_seconds.inf
    /\ time_estimates.by_city[1][2].citizen_wait_seconds.f # FloatZero
    /\ time_estimates.by_city[2][2].citizen_wait_seconds.inf
    /\ time_estimates.total_time_seconds.inf

\* C21: when estimate_recruitment_time has returned, the build time of a
\* city is the sum over its buildings of time per unit x quantity, plus 10
\* seconds for every unit type assigned at every one of those buildings.
C21_BuildTimePerUnitType ==
    pc = "estimated" =>
        \A i \in 1..Len(time_estimates.by_city) :
            LET city == time_estimates.by_city[i][1]
            IN  time_estimates.by_city[i][2].build_time_seconds =
                    SumSeq([b \in 1..BuildingCount |->
                              IF city_id[b] = city
                              THEN SumSeq([k \in 1..Len(assignments[b]) |->
                                             time_per_unit(b, assignments[b][k][1])
                                                 * assignments[b][k][2]])
                                   + 10 * Len(assignments[b])
                              ELSE 0])

\* x <= y for two Python numbers
AtMost(x, y) == y.inf \/ (~x.inf /\ ~FloatLess(y.f, x.f))

\* C22: when estimate_recruitment_time has returned, the overall estimate
\* is the largest of the totals of the cities, and the bottleneck is the
\* first city, in the order of by_city, whose total is that largest one.
C22_OverallIsMaximum ==
    pc = "estimated" =>
        LET by_city == time_estimates.by_city
            overall == time_estimates.total_time_seconds
            attaining == {i \in 1..Len(by_city) : by_city[i][2].total_time_seconds = overall}
        IN  /\ \A i \in 1..Len(by_city) : AtMost(by_city[i][2].total_time_seconds, overall)
            /\ attaining # {}
            /\ \E i \in attaining :
                  /\ \A j \in attaining : i <= j
                  /\ time_estimates.bottleneck = by_city[i][1]

\* two cities with the same total, the largest one: the first city is the
\* bottleneck
C22_Witness ==
    /\ pc = "estimated"
    /\ Len(time_estimates.by_city) = 2
    /\ time_estimates.by_city[1][2].total_time_seconds
          = time_estimates.by_city[2][2].total_time_seconds
    /\ time_estimates.bottleneck = time_estimates.by_city[1][1]

\* ------------------------------------------------------------------------
\* Properties of the caller (checked under Spec)
\* ------------------------------------------------------------------------
\* some city lacks citizens or a resource for the plans of its buildings
PlanShort ==
    \E city \in InvolvedCities, d \in Dims :
        NeedOf(city, d) > resource_check.available[city][d]
\* some building of the list is busy
SomeBusy == \E b \in Buildings : is_busy[b]
\* an order was placed, or an attempt to place one was made
AnythingSubmitted ==
    \/ \E b \in Buildings : submitted[b] # NoUnits
    \/ attempts # <<>>
\* the operator let the plan go ahead
Proceeds == confirm \in {"y", "Y", ""}

C23_NothingWithoutConsent ==
    /\ (AnythingSubmitted \/ pc \in {"execute", "executed", "cycle", "evaluate", "submit"})
          => Proceeds
    /\ pc = "cancelled" => (confirm \in {"n", "N", "'"} /\ ~AnythingSubmitted /\ bg = "before")
    /\ \A b \in Buildings : Cardinality(AttemptsAt(b)) <= 1

C23_ModeStep ==
    /\ (pc = "confirmed" /\ pc' # pc) =>
          /\ pc' \in {"cycle", "execute"}
          /\ pc' = "cycle" <=> (PlanShort \/ SomeBusy)
    /\ (pc' = "cycle" /\ bg' = "try" /\ bg = "before") => pc = "confirmed"
    /\ (pc' = "execute" /\ pc # "execute") => pc = "confirmed"
    /\ pc \in {"executed", "cancelled"} => pc' = pc

\* C23: after the operator let the plan go ahead, the caller enters the
\* resumable loop exactly when a city is short of citizens or of a resource
\* for the plan or a building of the list is busy, and else enters immediate
\* mode, which tries each building at most once and is not entered again;
\* nothing is submitted or attempted unless the operator let the plan go
\* ahead, and after a cancellation nothing is submitted.
C23_ModeAndConsent == []C23_NothingWithoutConsent /\ [][C23_ModeStep]_vars

\* immediate mode has run: no building was busy, the operator pressed Enter
\* and every building with a plan was tried once
C23_Witness ==
    /\ pc = "executed"
    /\ confirm = ""
    /\ ~SomeBusy
    /\ \E b \in Buildings : submitted[b] # NoUnits
    /\ \A b \in Buildings : assignments[b] # <<>> => Cardinality(AttemptsAt(b)) = 1

\* C24: the growth rates of the cities are fetched exactly once in a run:
\* get_all_city_growth_rates is never called a second time, and once an
\* estimate exists or the loop runs it was called once.
C24_GrowthRatesFetchedOnce ==
    /\ growth_rate_fetches <= 1
    /\ (time_estimates # NoEstimate \/ pc \in {"cycle", "evaluate", "submit"})
          => growth_rate_fetches = 1

\* ------------------------------------------------------------------------
\* Properties of the balancing steps (checked under PlanSpec)
\* ------------------------------------------------------------------------
\* a balancing step whose skew exceeds the tolerance is about to be taken
SkewedStep ==
    /\ pc = "balance"
    /\ iteration < max_iterations
    /\ Skew > tolerance
\* positions of the slowest building's assignments whose unit type the
\* fastest building can build and of which at least 2 units are held
PositionsOfTwoOrMore ==
    LET slowest == assignments[slowest_idx(assignments)]
    IN  {k \in 1..Len(slowest) :
            /\ slowest[k][1] \in DOMAIN unit_data[fastest_idx(assignments)]
            /\ slowest[k][2] >= 2}

C25_Step ==
    (SkewedStep /\ PositionsOfTwoOrMore # {}) =>
        LET s == slowest_idx(assignments)
            f == fastest_idx(assignments)
            k == CHOOSE p \in PositionsOfTwoOrMore :
                    \A q \in PositionsOfTwoOrMore : p <= q
            unit_idx == assignments[s][k][1]
            quantity == assignments[s][k][2]
            moving == Min(10, quantity - 1)
        IN  /\ Get(assignments'[s], unit_idx) = quantity - moving
            /\ Get(assignments'[f], unit_idx) = Get(assignments[f], unit_idx) + moving

\* C25: in a balancing step whose skew exceeds the tolerance, the first unit
\* type of the slowest building that the fastest building can build and of
\* which the slowest holds at least 2 units is moved: min(10, quantity - 1)
\* units leave the slowest building and are added to the fastest.
C25_TwoOrMoreAreMoved == [][C25_Step]_vars

\* buildings other than the slowest that can build unit_idx
CapableReceivers(unit_idx) ==
    {b \in Buildings :
        b # slowest_idx(assignments) /\ unit_idx \in DOMAIN unit_data[b]}
\* unit types of which the slowest building holds more than 10 units and
\* that a building with a smaller estimate can build
UnitsToHandOver ==
    LET slowest == assignments[slowest_idx(assignments)]
    IN  {slowest[k][1] : k \in {p \in 1..Len(slowest) :
            /\ slowest[p][2] > 10
            /\ \E b \in CapableReceivers(slowest[p][1]) :
                  times(assignments)[b] < max_time(assignments)}}

C26_Step ==
    (SkewedStep /\ UnitsToHandOver # {}) =>
        /\ pc' = "balance"
        /\ \E unit_idx \in UnitsToHandOver : \E r \in CapableReceivers(unit_idx) :
              /\ Get(assignments'[r], unit_idx) > Get(assignments[r], unit_idx)
              /\ \A b \in CapableReceivers(unit_idx) :
                    times(assignments)[r] <= times(assignments)[b]

\* C26: in a balancing step whose skew exceeds the tolerance, when some
\* building with a smaller estimate can build a unit type of which the
\* slowest building holds more than 10 units, balancing goes on and units
\* are received by a building whose estimate is the smallest among the
\* buildings that can build the moved unit type.
C26_ReceiverIsFastestCapable == [][C26_Step]_vars

\* the first building of the list whose estimate is v
FirstWith(v) ==
    CHOOSE b \in Buildings :
        /\ times(assignments)[b] = v
        /\ \A j \in 1..(b - 1) : times(assignments)[j] # v
\* n units of unit_idx went from building s to building f and nothing else
\* changed in the plans
OneMove(s, f, unit_idx, n) ==
    \A b \in Buildings, u \in Units :
        Get(assignments'[b], u) =
            Get(assignments[b], u)
            + (IF u = unit_idx /\ b = f THEN n ELSE 0)
            - (IF u = unit_idx /\ b = s THEN n ELSE 0)

C27_Step ==
    pc = "balance" =>
        \/ /\ pc' = "planned"
           /\ assignments' = assignments
           /\ iteration' \in {iteration, iteration + 1}
        \/ /\ pc' = "balance"
           /\ iteration' = iteration + 1
           /\ \E unit_idx \in Units, n \in 1..10 :
                 OneMove(FirstWith(max_time(assignments)),
                         FirstWith(min_time(assignments)), unit_idx, n)

\* C27: balance_distribution returns after at most 100 iterations: the
\* counter never passes 100, and every step of the balancer either returns
\* with the plans as they are or counts one iteration and makes one move,
\* from the first building of the list with the largest estimate to the
\* first building of the list with the smallest estimate.
C27_BalancerTerminates ==
    /\ [](iteration <= max_iterations)
    /\ [][C27_Step]_vars

\* the balancer returned because its 100 iterations were used up, each with
\* a move
C27_Witness ==
    /\ pc = "planned"
    /\ iteration = max_iterations
    /\ \E b \in Buildings : estimated_time[b] # times(assignments)[b]

\* ------------------------------------------------------------------------
\* Properties of the planner on busy buildings (checked under Spec)
\* ------------------------------------------------------------------------
\* the completion time of building b under the plan d, the time its running
\* queue still needs included
CompletionTime(b, d) ==
    SumSeq([i \in 1..Len(d) |-> time_per_unit(b, d[i][1]) * d[i][2]])
    + 10 * Len(d)
    + (IF is_busy[b] THEN live_queue_time(b) ELSE 0)

\* C28: when the balancer has returned before its iterations were used up,
\* the estimate it stored for every building is the sum of build time x
\* quantity over its assignments plus 10 s per unit type plus the time its
\* queue still needs when it is busy; and for a busy and an idle building
\* whose completion times differ by more than the tolerance, no unit type of
\* which the busy building holds more than 10 units can be built by the
\* idle one.
C28_QueueTimeCounted ==
    (pc = "planned" /\ runs = 1 /\ iteration < max_iterations) =>
        /\ \A b \in Buildings :
              estimated_time[b] = CompletionTime(b, assignments[b])
        /\ \A b, i \in Buildings :
              (/\ is_busy[b] /\ ~is_busy[i]
               /\ CompletionTime(b, assignments[b])
                     - CompletionTime(i, assignments[i]) > tolerance)
                 => \A k \in 1..Len(assignments[b]) :
                        \/ assignments[b][k][1] \notin DOMAIN unit_data[i]
                        \/ assignments[b][k][2] <= 10

\* ------------------------------------------------------------------------
\* Properties of the loop's order for one building (checked under Spec)
\* ------------------------------------------------------------------------
\* the step evaluates the building at the cursor, which has units left to
\* order and is not busy
EvaluatesIdleBuilding ==
    /\ pc = "evaluate"
    /\ cursor <= BuildingCount
    /\ cursor' = cursor + 1
    /\ remaining_assignments[cursor] # <<>>
    /\ ~is_busy'[cursor]
\* what the first k - 1 unit types of the order took of dimension d
TakenBefore(b, remaining, order, k, d) ==
    SumSeq([j \in 1..(k - 1) |->
               unit_data[b][remaining[j][1]][d] * Get(order, remaining[j][1])])
\* the position of a unit type in the remaining assignments
PlaceOf(remaining, unit_idx) ==
    CHOOSE k \in 1..Len(remaining) : remaining[k][1] = unit_idx

C29_Step ==
    EvaluatesIdleBuilding =>
        LET b == cursor
            remaining == remaining_assignments[b]
            pool == city_resources[city_id[b]]
            order == can_recruit_building'
        IN  /\ \A k \in 1..Len(remaining) :
                  LET ud == unit_data[b][remaining[k][1]]
                      limits == {(pool[d] - TakenBefore(b, remaining, order, k, d))
                                     \div ud[d] : d \in {e \in Dims : ud[e] > 0}}
                  IN  /\ Get(order, remaining[k][1]) <= remaining[k][2]
                      /\ \A l \in limits : Get(order, remaining[k][1]) <= l
                      /\ Get(order, remaining[k][1]) \in {remaining[k][2]} \cup limits
            /\ \A i \in 1..Len(order) :
                  /\ order[i][2] > 0
                  /\ HasKey(remaining, order[i][1])
                  /\ \A j \in 1..(i - 1) :
                        PlaceOf(remaining, order[j][1])
                            < PlaceOf(remaining, order[i][1])
            /\ \A d \in Dims :
                  TakenBefore(b, remaining, order, Len(remaining) + 1, d) <= pool[d]

\* C29: for a building that is not busy and has units left, the order the
\* loop computes holds of each unit type, in the order of the remaining
\* assignments, the smallest of the remaining quantity and of what the pool
\* of the city, less what the unit types before it took, pays in citizens
\* and in each resource the unit type costs; unit types with quantity 0 are
\* not in the order, and the order costs no more than the pool holds in any
\* dimension.
C29_GreedyOrder == [][C29_Step]_vars

\* the second building of a city was evaluated after the first took most of
\* the pool: its Hoplites are left out and one Swordsman can be paid
C29_Witness ==
    /\ pc = "evaluate"
    /\ cursor = 3
    /\ Len(buildings_to_recruit) = 1
    /\ city_id[1] = city_id[2]
    /\ Get(remaining_assignments[2], Hoplite) > 0
    /\ Get(remaining_assignments[2], Swordsman) > 1
    /\ can_recruit_building = <<<<Swordsman, 1>>>>

\* ------------------------------------------------------------------------
\* Properties of the loop's sleeps (checked under Spec)
\* ------------------------------------------------------------------------
C30_Step ==
    /\ (pc = "evaluate" /\ pc' = "cycle") =>
          (buildings_to_recruit = <<>> /\ wait_seconds' = 300)
    /\ (pc = "submit" /\ pc' = "cycle") =>
          (buildings_to_recruit # <<>> /\ wait_seconds' = 60)
    /\ (pc = "evaluate" /\ cursor > BuildingCount /\ buildings_to_recruit = <<>>)
          => pc' = "cycle"
    /\ (pc = "submit" /\ cursor > Len(buildings_to_recruit)) => pc' = "cycle"
    /\ (pc = "cycle" /\ wait_seconds > 0 /\ pc' # "cycle") =>
          \/ total_remaining <= 0 /\ pc' \in {"done", "raised"}
          \/ /\ ~(total_remaining <= 0)
             /\ \/ /\ pc' = "evaluate"
                   /\ cursor' = 1
                   /\ DOMAIN city_resources' = InvolvedCities
                   /\ city_resources' \in [InvolvedCities -> SnapshotSet \cup {RichSnapshot}]
                   /\ buildings_to_recruit' = <<>>
                \/ pc' = "raised"

\* C30: a cycle in which no building met its threshold ends with a sleep of
\* 300 s, a cycle in which orders were prepared and tried ends with a sleep
\* of 60 s, and the step the loop takes after either sleep is the check of
\* the remaining total followed, when units remain, by a fresh snapshot of
\* every city of the plan, unless that request raises.
C30_SleepThenNextCycle == [][C30_Step]_vars

\* the loop sleeps 60 s after a cycle in which an order was placed, and
\* units remain for the cycles to come
C30_Witness ==
    /\ pc = "cycle"
    /\ wait_seconds = 60
    /\ \E b \in Buildings : submitted[b] # NoUnits
    /\ ~(total_remaining <= 0)

\* ------------------------------------------------------------------------
\* Properties of the snapshot requests (checked under Spec)
\* ------------------------------------------------------------------------
\* every city of the plan was asked exactly once, and no other city
AskedOnceEach(requests) ==
    /\ \A c \in InvolvedCities :
          Cardinality({i \in 1..Len(requests) : requests[i] = c}) = 1
    /\ \A i \in 1..Len(requests) : requests[i] \in InvolvedCities

C31_Step ==
    /\ (pc = "planned" /\ pc' = "audited") =>
          /\ AskedOnceEach(city_requests')
          /\ DOMAIN resource_check'.available = InvolvedCities
    /\ (pc = "cycle" /\ pc' = "evaluate") =>
          /\ city_resources = <<>>
          /\ city_requests = <<>>
          /\ AskedOnceEach(city_requests')
          /\ DOMAIN city_resources' = InvolvedCities
    /\ (pc \in {"evaluate", "submit"} /\ pc' \in {"evaluate", "submit"}) =>
          city_requests' = city_requests

\* C31: the audit and each cycle of the loop ask for the snapshot of every
\* city of the plan exactly once, however many buildings lie in it, no
\* further request is made while the buildings of the cycle are evaluated
\* and their orders placed, and a cycle starts with no snapshot of the
\* cycle before.
C31_OneSnapshotPerCity == [][C31_Step]_vars

\* two buildings of one city are in a cycle that follows a placed order, and
\* the city was asked once
C31_Witness ==
    /\ pc = "evaluate"
    /\ city_id[1] = city_id[2]
    /\ city_requests = <<city_id[1]>>
    /\ \E b \in Buildings : submitted[b] # NoUnits

\* ------------------------------------------------------------------------
\* Properties of the submissions of the loop (checked under Spec)
\* ------------------------------------------------------------------------
\* the step handles the prepared order at the cursor
HandlesOrder == pc = "submit" /\ cursor <= Len(buildings_to_recruit)

C32_Step ==
    HandlesOrder =>
        LET b == buildings_to_recruit[cursor].building
        IN  /\ pc' = "submit"
            /\ cursor' = cursor + 1
            /\ buildings_to_recruit' = buildings_to_recruit
            /\ (~action_code'[b] \/ submitted'[b] = submitted[b]) =>
                  /\ submitted' = submitted
                  /\ live_busy' = live_busy
                  /\ remaining_assignments' = remaining_assignments
                  /\ is_busy' = is_busy

\* C32: when the loop handles the order of a building and no token could be
\* obtained for it, or the submission failed, nothing is submitted, the
\* remaining assignments and the busy flag of the building stay as they
\* were, and the loop goes on to the next prepared order of the cycle.
C32_FailedOrderIsSkipped == [][C32_Step]_vars

\* both orders of a cycle were handled: the first building got no token and
\* keeps its whole plan, the second was submitted to
C32_Witness ==
    /\ pc = "submit"
    /\ Len(buildings_to_recruit) = 2
    /\ cursor = 3
    /\ ~action_code[1]
    /\ submitted[1] = NoUnits
    /\ remaining_assignments[1] = assignments[1]
    /\ ~is_busy[1]
    /\ submitted[2] # NoUnits

\* ------------------------------------------------------------------------
\* Properties of the busy flag in the loop (checked under Spec)
\* ------------------------------------------------------------------------
C33_OnceSubmittedBusy ==
    InLoop => \A b \in Buildings : submitted[b] # NoUnits => is_busy[b]

C33_Step ==
    InLoop =>
        \A b \in Buildings :
            /\ is_busy[b] => is_busy'[b]
            /\ submitted'[b] # submitted[b] => (~is_busy[b] /\ is_busy'[b])

\* C33: in the resumable loop a busy flag that is set is never cleared, an
\* order is submitted only to a building whose flag is not set and sets it,
\* and a building that was submitted to has its flag set: no building is
\* submitted to twice in a run.
C33_BusyIsAbsorbing == []C33_OnceSubmittedBusy /\ [][C33_Step]_vars

\* a building got a part of its plan, its queue has run empty, and a later
\* cycle passed it by with the flag still set
C33_Witness ==
    /\ pc = "evaluate"
    /\ cursor > BuildingCount
    /\ \E b \in Buildings :
          /\ submitted[b] # NoUnits
          /\ remaining_assignments[b] # <<>>
          /\ ~live_busy[b]
          /\ is_busy[b]

\* ------------------------------------------------------------------------
\* Properties of the pools of a cycle (checked under Spec)
\* ------------------------------------------------------------------------
C34_PoolNonNegative ==
    \A c \in DOMAIN city_resources, d \in Dims : city_resources[c][d] >= 0

C34_Step ==
    EvaluatesIdleBuilding =>
        LET b == cursor
            remaining == remaining_assignments[b]
            pool == city_resources[city_id[b]]
        IN  \A k \in 1..(Len(remaining) + 1), d \in Dims :
                pool[d] - TakenBefore(b, remaining, can_recruit_building', k, d) >= 0

\* C34: in every cycle the pool of every city holds no negative amount of
\* citizens or of a resource, and the working copy a building computes its
\* order on holds none after any of its unit types was taken out.
C34_PoolsStayNonNegative == []C34_PoolNonNegative /\ [][C34_Step]_vars

\* an order was prepared that took the last wood of its city
C34_Witness ==
    /\ pc = "evaluate"
    /\ buildings_to_recruit # <<>>
    /\ \E c \in DOMAIN city_resources :
          /\ city_resources[c].wood = 0
          /\ cycle_snapshot[c].wood > 0

\* ------------------------------------------------------------------------
\* Properties of the pool around a failed order (checked under Spec)
\* ------------------------------------------------------------------------
\* the step prepares an order for the building at the cursor
PreparesOrder ==
    /\ pc = "evaluate"
    /\ Len(buildings_to_recruit') = Len(buildings_to_recruit) + 1

C35_Step ==
    /\ PreparesOrder =>
          LET recruit_info == buildings_to_recruit'[Len(buildings_to_recruit')]
              city == city_id[recruit_info.building]
          IN  /\ recruit_info.building = cursor
              /\ submitted' = submitted
              /\ \A d \in Dims :
                    city_resources'[city][d] =
                        city_resources[city][d] - OrderCost(recruit_info, d)
              /\ \A c \in InvolvedCities \ {city} :
                    city_resources'[c] = city_resources[c]
    /\ HandlesOrder => city_resources' = city_resources

\* C35: the pool of a city is reduced by the cost of an order in the step
\* that prepares it, before anything is submitted, and handling the order
\* leaves the pool as it is whether the order is then placed or fails.
C35_PoolReducedBeforeSubmission == [][C35_Step]_vars

\* the order of the first building of a city failed after it had taken
\* most of the pool, and the second building, which the whole snapshot
\* would have taken over its threshold, got no order
C35_Witness ==
    /\ pc = "submit"
    /\ cursor > Len(buildings_to_recruit)
    /\ Len(buildings_to_recruit) = 1
    /\ buildings_to_recruit[1].building = 1
    /\ submitted[1] = NoUnits
    /\ city_id[1] = city_id[2]
    /\ ~is_busy[2]
    /\ remaining_assignments[2] # <<>>
    /\ MeetsThreshold(
           SumSeq(Values(CanRecruit(2, remaining_assignments[2],
                                    cycle_snapshot[city_id[2]]))),
           Threshold(SumSeq(Values(remaining_assignments[2]))))

\* ------------------------------------------------------------------------
\* Properties of the orders the loop submits (checked under Spec)
\* ------------------------------------------------------------------------
\* what building b received of unit_idx in the step
ReceivedNow(b, unit_idx) == submitted'[b][unit_idx] - submitted[b][unit_idx]

C36_Step ==
    (pc = "submit" /\ submitted' # submitted) =>
        LET b == buildings_to_recruit[cursor].building
            to_recruit == buildings_to_recruit[cursor].to_recruit
        IN  /\ \A other \in Buildings \ {b} : submitted'[other] = submitted[other]
            /\ remaining_assignments[b] # <<>>
            /\ to_recruit # <<>>
            /\ \A k \in 1..Len(to_recruit) :
                  /\ to_recruit[k][1] \in DOMAIN unit_data[b]
                  /\ HasKey(remaining_assignments[b], to_recruit[k][1])
                  /\ to_recruit[k][2] >= 1
                  /\ to_recruit[k][2] <= Get(remaining_assignments[b], to_recruit[k][1])
            /\ \A unit_idx \in Units : ReceivedNow(b, unit_idx) = Get(to_recruit, unit_idx)

\* C36: every order the loop submits goes to a building with remaining
\* assignments and holds only unit types of its capability map and of its
\* remaining assignments, each with a quantity of at least 1 and at most the
\* quantity remaining of that type, and the game receives exactly the order.
C36_OrdersWithinRemaining == [][C36_Step]_vars

\* a building received an order of two unit types: all that remained of the
\* first and less than what remained of the second
C36_Witness ==
    /\ pc = "submit"
    /\ \E b \in Buildings :
          /\ submitted[b][Hoplite] >= 1
          /\ ~HasKey(remaining_assignments[b], Hoplite)
          /\ submitted[b][Swordsman] >= 1
          /\ Get(remaining_assignments[b], Swordsman) >= 1

\* ------------------------------------------------------------------------
\* Properties of the plan during the execution (checked under Spec)
\* ------------------------------------------------------------------------
\* calculate_distribution has returned to autoRecruitment
AfterPlanning ==
    pc \in {"planned", "audited", "estimated", "confirmed", "cancelled", "execute",
            "executed", "cycle", "evaluate", "submit", "done", "raised"}

C37_Step ==
    /\ AfterPlanning => assignments' = assignments
    /\ (pc = "confirmed" /\ pc' = "cycle") => remaining_assignments' = assignments

\* C37: once the planner has returned, no step of the caller, of immediate
\* mode or of the loop changes the planned assignments of a building; the
\* loop starts with remaining assignments equal to the plan and changes
\* only those.
C37_PlanIsNotModified == [][C37_Step]_vars

\* the loop has placed an order: what remains differs from the plan
C37_Witness ==
    /\ pc = "cycle"
    /\ \E b \in Buildings :
          /\ submitted[b] # NoUnits
          /\ remaining_assignments[b] # assignments[b]
          /\ SumSeq(Values(assignments[b]))
                = SumSeq(Values(remaining_assignments[b])) + SubmittedOf(b)

\* ------------------------------------------------------------------------
\* Properties of the completion event (checked under Spec)
\* ------------------------------------------------------------------------
\* autoRecruitment has returned, was left by an error, or went on in the
\* background
HasLeftTheMenu == pc \in {"cancelled", "executed", "failed", "stopped"} \/ bg # "before"

\* C38: whenever autoRecruitment has ended in the foreground, by a cancel
\* at a prompt, a declined confirmation, the end of immediate mode, the
\* entry into background mode or an error raised by the audit, event.set()
\* was called.
C38_EventAlwaysSignalled == HasLeftTheMenu => event_set

\* ------------------------------------------------------------------------
\* Properties of the planned quantities (checked under PlanSpec)
\* ------------------------------------------------------------------------
AllEntriesAtLeastOne ==
    \A b \in Buildings : \A i \in 1..Len(assignments[b]) : assignments[b][i][2] >= 1

\* the unit types a plan holds
KeysOf(d) == {d[i][1] : i \in 1..Len(d)}

\* a balancing move keeps every unit type of every building, and leaves at
\* least 1 of each
C39_Step ==
    (pc = "balance" /\ assignments' # assignments) =>
        \A b \in Buildings :
            /\ KeysOf(assignments[b]) \subseteq KeysOf(assignments'[b])
            /\ \A i \in 1..Len(assignments'[b]) : assignments'[b][i][2] >= 1

\* C39: after the split and after planning every entry of every building's
\* assignments is at least 1, and a balancing move removes no unit type
\* from a building: at least 1 unit of the moved type stays at the slowest
\* building.
C39_EntriesAtLeastOne ==
    /\ [](pc \in {"balance", "planned"} => AllEntriesAtLeastOne)
    /\ [][C39_Step]_vars

\* a plan returned after a move that left a single unit of a type at a
\* building
C39_Witness ==
    /\ pc = "planned"
    /\ iteration >= 2
    /\ \E b \in Buildings : \E i \in 1..Len(assignments[b]) : assignments[b][i][2] = 1

\* C40: when calculate_distribution has returned a plan, the estimated_time
\* stored for each building is the completion time of the assignments it
\* returned, also when the iteration bound ended the balancing right after
\* a move.
C40_StoredEstimateIsFinal ==
    (pc = "planned" /\ ~Falsy(distribution)) => estimated_time = times(assignments)

====
